---- MODULE Spec2Model ----
(***************************************************************************)
(* A model of the on-device text-to-speech engine of src/lib/clientTts.ts  *)
(* (chunker, voice-style store, session manager, inference orchestrator,   *)
(* waveform assembly, WAV encoder, synthesis facade).                      *)
(*                                                                         *)
(* Strings are sequences of one-character strings.  Seconds are counted in *)
(* ticks of 1/TicksPerSecond second, so floor(seconds * sampleRate) is an  *)
(* integer division.                                                       *)
(***************************************************************************)
EXTENDS Integers, Sequences, FiniteSets, TLC

VARIABLES
    ctInput,    \* chunkText: the argument text
    ctTokens,   \* chunkText: how many tokens the input was built from
    ctMaxLen,   \* chunkText: the argument maxLen
    ctParas,    \* chunkText: the trimmed paragraphs the loop visited
    ctSents,    \* chunkText: `sentences` of each visited paragraph
    ctChunks,   \* chunkText: the returned list of chunks
    ctDone,     \* chunkText has returned
    wavAudio,   \* writeWavToBuffer: the argument audioData
    wavRate,    \* writeWavToBuffer: the argument sampleRate
    wavBuffer,  \* writeWavToBuffer: the returned buffer, byte by byte
    wavDone,    \* writeWavToBuffer has returned
    globalTextToSpeech,  \* <<>> (null) or << the engine >>
    globalConfig,        \* <<>> (null) or << the config >>
    globalStyleCache,    \* voice id -> <<>> (no entry) or << the Style >>
    loads,      \* how many times loadTextToSpeechInternal was entered
    assigns,    \* how many times globalTextToSpeech was assigned
    styles,     \* how many Style objects were constructed
    cfgAsset,   \* the content of /models/onnx/tts.json
    req,        \* the synthesize calls: position, arguments, locals, outcome
    arrived,    \* the worker: the messages in the order they were received
    posted,     \* the worker: the responses in the order they were posted
    upTextList, \* UnicodeProcessor.call: the argument textList, texts as code points
    upIndexer,  \* UnicodeProcessor: the indexer table
    upOut,      \* UnicodeProcessor.call: the returned textIds and textMask
    upDone,     \* UnicodeProcessor.call has returned
    slDuration, \* sampleNoisyLatent: the argument duration, in ticks
    slOut,      \* sampleNoisyLatent: the returned xt and latentMask
    slDone,     \* sampleNoisyLatent has returned
    post        \* the POST handler: position, body, synthesis call, response

chunkVars == <<ctInput, ctTokens, ctMaxLen, ctParas, ctSents, ctChunks, ctDone>>

wavVars == <<wavAudio, wavRate, wavBuffer, wavDone>>

globalVars == <<globalTextToSpeech, globalConfig, globalStyleCache>>

engineVars == <<globalTextToSpeech, globalConfig, globalStyleCache, loads, assigns, styles,
                cfgAsset, req, arrived, posted>>

tokVars == <<upTextList, upIndexer, upOut, upDone>>

latentVars == <<slDuration, slOut, slDone>>

vars == <<ctInput, ctTokens, ctMaxLen, ctParas, ctSents, ctChunks, ctDone,
          wavAudio, wavRate, wavBuffer, wavDone,
          globalTextToSpeech, globalConfig, globalStyleCache, loads, assigns, styles,
          cfgAsset, req, arrived, posted,
          upTextList, upIndexer, upOut, upDone, slDuration, slOut, slDone, post>>

(***************************************************************************)
(* Helpers on sequences                                                    *)
(***************************************************************************)
SetMin(S) == CHOOSE x \in S : \A y \in S : x <= y

SetMax(S) == CHOOSE x \in S : \A y \in S : x >= y

(***************************************************************************)
(* Character classes of the regular expressions                            *)
(***************************************************************************)
\* \s of a JavaScript regular expression (the members that occur in the inputs).
WhiteSpace == {" ", "\n", "\t", "\r"}

\* [A-Z]
UpperCase == {"A", "B", "C", "D", "E", "F", "G", "H", "I", "J", "K", "L", "M",
              "N", "O", "P", "Q", "R", "S", "T", "U", "V", "W", "X", "Y", "Z"}

LowerCase == {"a", "b", "c", "d", "e", "f", "g", "h", "i", "j", "k", "l", "m",
              "n", "o", "p", "q", "r", "s", "t", "u", "v", "w", "x", "y", "z"}

Digits == {"0", "1", "2", "3", "4", "5", "6", "7", "8", "9"}

\* \w, the class \b is defined by
WordChars == UpperCase \cup LowerCase \cup Digits \cup {"_"}

\* [.!?]
SentenceEnd == {".", "!", "?"}

\* The alternatives of the first negative lookbehind of the sentence regex.
AbbrevLookbehind ==
    { <<"M", "r", ".">>, <<"M", "r", "s", ".">>, <<"M", "s", ".">>,
      <<"D", "r", ".">>, <<"P", "r", "o", "f", ".">>, <<"S", "r", ".">>,
      <<"J", "r", ".">>, <<"P", "h", ".", "D", ".">>, <<"e", "t", "c", ".">>,
      <<"e", ".", "g", ".">>, <<"i", ".", "e", ".">>, <<"v", "s", ".">>,
      <<"I", "n", "c", ".">>, <<"L", "t", "d", ".">>, <<"C", "o", ".">>,
      <<"C", "o", "r", "p", ".">>, <<"S", "t", ".">>, <<"A", "v", "e", ".">>,
      <<"B", "l", "v", "d", ".">> }

(***************************************************************************)
(* String.prototype.trim                                                   *)
(***************************************************************************)
\* String.prototype.trimStart in the place of trim.
TrimStart(s) ==
    LET keep == {i \in 1..Len(s) : s[i] \notin WhiteSpace}
    IN  IF keep = {} THEN <<>> ELSE SubSeq(s, SetMin(keep), Len(s))

Trim(s) ==
    LET keep == {i \in 1..Len(s) : s[i] \notin WhiteSpace}
    IN  IF keep = {} THEN <<>> ELSE SubSeq(s, SetMin(keep), SetMax(keep))

\* The last index of the maximal run of whitespace that starts at i.
RunEnd(s, i) ==
    LET stop == {j \in i..Len(s) : s[j] \notin WhiteSpace}
    IN  IF stop = {} THEN Len(s) ELSE SetMin(stop) - 1

\* s[1..k] ends with pat.
EndsWith(s, k, pat) ==
    /\ Len(pat) <= k
    /\ SubSeq(s, k - Len(pat) + 1, k) = pat

(***************************************************************************)
(* text.trim().split(/\n\s*\n+/): a match starts at a newline and, \s*     *)
(* being greedy and \n+ needing one newline, ends at the last newline of   *)
(* the whitespace run that starts there; 0 when there is no match at i.    *)
(***************************************************************************)
BlankLineMatchEnd(s, i) ==
    IF s[i] # "\n" THEN 0
    ELSE LET later == {j \in (i + 1)..RunEnd(s, i) : s[j] = "\n"}
         IN  IF later = {} THEN 0 ELSE SetMax(later)

RECURSIVE SplitBlankLines(_, _, _)
SplitBlankLines(s, start, i) ==
    IF i > Len(s) THEN << SubSeq(s, start, Len(s)) >>
    ELSE LET e == BlankLineMatchEnd(s, i)
         IN  IF e > 0
             THEN << SubSeq(s, start, i - 1) >> \o SplitBlankLines(s, e + 1, e + 1)
             ELSE SplitBlankLines(s, start, i + 1)

\* (?<!\b[A-Z]\.) fails at the position after s[k]: an upper-case letter and a
\* period, the letter at the start or after a non-word character.
InitialBefore(s, k) ==
    /\ k >= 2
    /\ s[k] = "."
    /\ s[k - 1] \in UpperCase
    /\ (k = 2 \/ s[k - 2] \notin WordChars)

\* AbbrevBefore with "Mr." and "Dr." missing from the alternatives.
AbbrevBeforeShortList(s, k) ==
    \E a \in AbbrevLookbehind \ { <<"M", "r", ".">>, <<"D", "r", ".">> } : EndsWith(s, k, a)

\* (?<!Mr\.|Mrs\.|...) fails at the position after s[k].
AbbrevBefore(s, k) == \E a \in AbbrevLookbehind : EndsWith(s, k, a)

(***************************************************************************)
(* The sentence regex at position i: both negative lookbehinds hold,       *)
(* (?<=[.!?]) holds, and \s+ takes the whole run; 0 when no match at i.    *)
(***************************************************************************)
SentenceMatchEnd(s, i) ==
    IF /\ s[i] \in WhiteSpace
       /\ i > 1
       /\ s[i - 1] \in SentenceEnd
       /\ ~AbbrevBefore(s, i - 1)
       /\ ~InitialBefore(s, i - 1)
    THEN RunEnd(s, i)
    ELSE 0

\* The split pattern consumes the punctuation: /[.!?]\s+/
RECURSIVE SplitSentencesAtPunctuation(_, _, _)
SplitSentencesAtPunctuation(s, start, i) ==
    IF i > Len(s) THEN << SubSeq(s, start, Len(s)) >>
    ELSE LET e == SentenceMatchEnd(s, i)
         IN  IF e > 0
             THEN << SubSeq(s, start, i - 2) >> \o SplitSentencesAtPunctuation(s, e + 1, e + 1)
             ELSE SplitSentencesAtPunctuation(s, start, i + 1)

RECURSIVE SplitSentences(_, _, _)
SplitSentences(s, start, i) ==
    IF i > Len(s) THEN << SubSeq(s, start, Len(s)) >>
    ELSE LET e == SentenceMatchEnd(s, i)
         IN  IF e > 0
             THEN << SubSeq(s, start, i - 1) >> \o SplitSentences(s, e + 1, e + 1)
             ELSE SplitSentences(s, start, i + 1)

\* The paragraphs the outer loop works on: split, filter, trim, skip empty.
Paragraphs(text) ==
    LET parts == SplitBlankLines(Trim(text), 1, 1)
        kept  == SelectSeq(parts, LAMBDA p : Len(Trim(p)) > 0)
    IN  [k \in 1..Len(kept) |-> Trim(kept[k])]

Sentences(paragraph) == SplitSentences(paragraph, 1, 1)

\* Fits with < in place of <=.
FitsStrict(currentChunk, sentence, maxLen) ==
    Len(currentChunk) + Len(sentence) + 1 < maxLen

\* The test of the greedy packing: the sentence still fits the current chunk.
Fits(currentChunk, sentence, maxLen) ==
    Len(currentChunk) + Len(sentence) + 1 <= maxLen

\* The inner loop and the final push, for one paragraph.
RECURSIVE PackSentences(_, _, _, _)
PackSentences(sentences, currentChunk, chunks, maxLen) ==
    IF sentences = <<>>
    THEN IF currentChunk # <<>> THEN Append(chunks, Trim(currentChunk)) ELSE chunks
    ELSE LET sentence == Head(sentences)
         IN  IF Fits(currentChunk, sentence, maxLen)
             THEN PackSentences(Tail(sentences),
                      currentChunk \o (IF currentChunk # <<>> THEN <<" ">> ELSE <<>>)
                                   \o sentence,
                      chunks, maxLen)
             ELSE PackSentences(Tail(sentences), sentence,
                      IF currentChunk # <<>>
                      THEN Append(chunks, Trim(currentChunk)) ELSE chunks,
                      maxLen)

RECURSIVE PackParagraphs(_, _, _)
PackParagraphs(paragraphs, chunks, maxLen) ==
    IF paragraphs = <<>> THEN chunks
    ELSE PackParagraphs(Tail(paragraphs),
             PackSentences(Sentences(Head(paragraphs)), <<>>, chunks, maxLen),
             maxLen)

chunkText(text, maxLen) == PackParagraphs(Paragraphs(text), <<>>, maxLen)

\* maxLen: number = 300
DefaultMaxLen == 300

(***************************************************************************)
(* Numbers.  A duration is a whole number of ticks, a sample a whole       *)
(* number of 1/SampleDen.                                                  *)
(***************************************************************************)
TicksPerSecond == 10

SampleDen == 2

Min2(a, b) == IF a <= b THEN a ELSE b

Max2(a, b) == IF a >= b THEN a ELSE b

\* Math.floor(seconds * sampleRate), seconds given in ticks.
FloorSamples(ticks, sampleRate) == (ticks * sampleRate) \div TicksPerSecond

\* slice(0, end) that returns the whole array.
Slice0Whole(a, end) == a

\* Array.prototype.slice(0, end) for an integer end.
Slice0(a, end) ==
    LET final == IF end < 0 THEN Max2(Len(a) + end, 0) ELSE Min2(end, Len(a))
    IN  SubSeq(a, 1, final)

Zeros(n) == [i \in 1..n |-> 0]

(***************************************************************************)
(* writeWavToBuffer                                                        *)
(***************************************************************************)
\* DataView.setUint16(_, v, true), for 0 <= v < 2^16
U16LE(v) == << v % 256, (v \div 256) % 256 >>

\* DataView.setUint32(_, v, true), for 0 <= v < 2^31
U32LE(v) ==
    << v % 256, (v \div 256) % 256, (v \div 65536) % 256, (v \div 16777216) % 256 >>

\* DataView.setInt16(_, v, true): the two's complement of v in 16 bits
I16LE(v) == U16LE(v % 65536)

\* Math.floor(s * 32767): the sample is not clamped.
IntSampleUnclamped(s) == (s * 32767) \div SampleDen

\* Math.floor(Math.max(-1, Math.min(1, s)) * 32767), s given in 1/SampleDen
IntSample(s) == (Max2(-SampleDen, Min2(SampleDen, s)) * 32767) \div SampleDen

RECURSIVE SampleBytes(_)
SampleBytes(audioData) ==
    IF audioData = <<>> THEN <<>>
    ELSE I16LE(IntSample(Head(audioData))) \o SampleBytes(Tail(audioData))

\* The header with dataSize counted in samples, not in bytes.
WavHeaderSampleCount(n, sampleRate) ==
    << 82, 73, 70, 70 >> \o U32LE(36 + n) \o << 87, 65, 86, 69 >>
    \o << 102, 109, 116, 32 >> \o U32LE(16) \o U16LE(1) \o U16LE(1)
    \o U32LE(sampleRate) \o U32LE(sampleRate * 2) \o U16LE(2) \o U16LE(16)
    \o << 100, 97, 116, 97 >> \o U32LE(n)

\* The 44 bytes written before the samples, for n samples.
WavHeader(n, sampleRate) ==
    LET numChannels   == 1
        bitsPerSample == 16
        byteRate      == (sampleRate * numChannels * bitsPerSample) \div 8
        blockAlign    == (numChannels * bitsPerSample) \div 8
        dataSize      == (n * bitsPerSample) \div 8
    IN  << 82, 73, 70, 70 >> \o U32LE(36 + dataSize) \o << 87, 65, 86, 69 >>
        \o << 102, 109, 116, 32 >> \o U32LE(16) \o U16LE(1) \o U16LE(numChannels)
        \o U32LE(sampleRate) \o U32LE(byteRate) \o U16LE(blockAlign)
        \o U16LE(bitsPerSample)
        \o << 100, 97, 116, 97 >> \o U32LE(dataSize)

writeWavToBuffer(audioData, sampleRate) ==
    WavHeader(Len(audioData), sampleRate) \o SampleBytes(audioData)

(***************************************************************************)
(* Assets and tensors                                                      *)
(***************************************************************************)
None == <<>>

Some(v) == << v >>

VoiceStyleIds == {"F1", "F2", "M1", "M2"}

\* /models/onnx/tts.json
CfgAssets ==
    { [ae |-> [sample_rate |-> sr, base_chunk_size |-> 2],
       ttl |-> [chunk_compress_factor |-> 2, latent_dim |-> 1]] : sr \in {5, 10} }

\* /models/voice_styles/<id>.json: F1 and M2 declare one style; F2 declares
\* two styles and holds the data of two; M1 declares two and holds the data
\* of one.
StyleAsset(id) ==
    CASE id = "F1" -> [style_ttl |-> [dims |-> <<1, 1, 2>>, data |-> <<5, 6>>],
                       style_dp  |-> [dims |-> <<1, 1, 1>>, data |-> <<7>>]]
      [] id = "F2" -> [style_ttl |-> [dims |-> <<2, 1, 2>>, data |-> <<5, 6, 8, 9>>],
                       style_dp  |-> [dims |-> <<1, 1, 1>>, data |-> <<7>>]]
      [] id = "M1" -> [style_ttl |-> [dims |-> <<2, 1, 2>>, data |-> <<3, 4>>],
                       style_dp  |-> [dims |-> <<1, 1, 1>>, data |-> <<7>>]]
      [] OTHER     -> [style_ttl |-> [dims |-> <<1, 1, 2>>, data |-> <<1, 2>>],
                       style_dp  |-> [dims |-> <<1, 1, 1>>, data |-> <<9>>]]

\* new Float32Array(d1 * d2) and .set(data.flat(2)): a RangeError when the
\* data is longer than the array, zeros where it is shorter.
FlatFits(json) == Len(json.data) <= json.dims[2] * json.dims[3]

\* The tensor is built of the fresh array, the data never copied into it.
StyleTensorUnset(json) ==
    [dims |-> <<1, json.dims[2], json.dims[3]>>,
     data |-> [i \in 1..(json.dims[2] * json.dims[3]) |-> 0]]

\* new ort.Tensor("float32", flat, [1, d1, d2])
StyleTensor(json) ==
    [dims |-> <<1, json.dims[2], json.dims[3]>>,
     data |-> [i \in 1..(json.dims[2] * json.dims[3]) |->
                  IF i <= Len(json.data) THEN json.data[i] ELSE 0]]

\* new Style(ttlTensor, dpTensor); oid tells the objects apart.
NewStyle(json, oid) ==
    [oid |-> oid, ttl |-> StyleTensor(json.style_ttl), dp |-> StyleTensor(json.style_dp)]

(***************************************************************************)
(* UnicodeProcessor.  A string is its sequence of UTF-16 code units; a      *)
(* code point above U+FFFF is a pair of surrogates.                         *)
(***************************************************************************)
HighSurrogates == 55296..56319

LowSurrogates == 56320..57343

\* The UTF-16 code units of a sequence of code points.
RECURSIVE EncodeUTF16(_)
EncodeUTF16(cps) ==
    IF cps = <<>> THEN <<>>
    ELSE LET cp == Head(cps)
         IN  (IF cp >= 65536
              THEN << 55296 + ((cp - 65536) \div 1024), 56320 + ((cp - 65536) % 1024) >>
              ELSE << cp >>) \o EncodeUTF16(Tail(cps))

\* String.prototype.codePointAt(j), j counted from 0 and j < length.
codePointAt(text, j) ==
    LET first == text[j + 1]
    IN  IF first \in HighSurrogates /\ j + 2 <= Len(text) /\ text[j + 2] \in LowSurrogates
        THEN (first - 55296) * 1024 + (text[j + 2] - 56320) + 65536
        ELSE first

\* The code points of a string, as a for-of loop over it yields them.
RECURSIVE CodePoints(_, _)
CodePoints(text, j) ==
    IF j >= Len(text) THEN <<>>
    ELSE LET cp == codePointAt(text, j)
         IN  << cp >> \o CodePoints(text, j + (IF cp >= 65536 THEN 2 ELSE 1))

\* The compatibility decompositions of the code points the model types:
\* U+00E9 e-acute, U+FB01 fi ligature, U+FF21 fullwidth A, U+1D400
\* mathematical bold A; every other code point of the model stands for itself.
Decomposition(cp) ==
    CASE cp = 233    -> << 101, 769 >>
      [] cp = 64257  -> << 102, 105 >>
      [] cp = 65313  -> << 65 >>
      [] cp = 119808 -> << 65 >>
      [] OTHER       -> << cp >>

\* The canonical compositions with U+0301 (combining acute) of the model's
\* letters: A, e, i.
Composable(starter) == starter \in {65, 101, 105}

Composed(starter) ==
    CASE starter = 65  -> 193
      [] starter = 101 -> 233
      [] OTHER         -> 237

RECURSIVE Decompose(_)
Decompose(cps) ==
    IF cps = <<>> THEN <<>> ELSE Decomposition(Head(cps)) \o Decompose(Tail(cps))

RECURSIVE Compose(_, _)
Compose(cps, out) ==
    IF cps = <<>> THEN out
    ELSE IF Head(cps) = 769 /\ out # <<>> /\ Composable(out[Len(out)])
         THEN Compose(Tail(cps), [out EXCEPT ![Len(out)] = Composed(@)])
         ELSE Compose(Tail(cps), Append(out, Head(cps)))

\* The code points of text.normalize("NFKC")
NFKC(cps) == Compose(Decompose(cps), <<>>)

\* preprocessText
preprocessText(text) == EncodeUTF16(NFKC(CodePoints(text, 0)))

\* An indexer table is known by its length and by a seed of its entries.
IndexerAt(indexer, codePoint) == (codePoint + indexer.seed) % 251

\* codePoint < this.indexer.length ? this.indexer[codePoint] : -1
indexValue(indexer, codePoint) ==
    IF codePoint < indexer.length THEN IndexerAt(indexer, codePoint) ELSE -1

\* Math.max(...lengths) where a row is allocated, which is never for no row.
MaxOf(lengths) == SetMax({lengths[i] : i \in 1..Len(lengths)})

\* The loop of lengthToMask stops one position early.
lengthToMaskShort(len, maxLen) == [j \in 1..maxLen |-> IF j < Min2(len, maxLen) THEN 1 ELSE 0]

lengthToMask(len, maxLen) == [j \in 1..maxLen |-> IF j <= Min2(len, maxLen) THEN 1 ELSE 0]

\* UnicodeProcessor.call
UnicodeProcessorCall(textList, indexer) ==
    LET processedTexts == [i \in 1..Len(textList) |-> preprocessText(textList[i])]
        textIdsLengths == [i \in 1..Len(textList) |-> Len(processedTexts[i])]
    IN  [textIds  |-> [i \in 1..Len(textList) |->
                          [j \in 1..MaxOf(textIdsLengths) |->
                              IF j <= Len(processedTexts[i])
                              THEN indexValue(indexer, codePointAt(processedTexts[i], j - 1))
                              ELSE 0]],
         textMask |-> [i \in 1..Len(textList) |->
                          << lengthToMask(textIdsLengths[i], MaxOf(textIdsLengths)) >>]]

(***************************************************************************)
(* TextToSpeech.sampleNoisyLatent                                          *)
(***************************************************************************)
\* A value of the Box-Muller sampling; the model keeps no more of it than
\* that it is not the 0 of the masked positions.
Gaussian == 1

\* x_t is its nested array and, for the record, how many estimator outputs
\* went into it.
NoLatent == [data |-> <<>>, steps |-> 0]

\* [bsz, xt[0]?.length ?? 0, xt[0]?.[0]?.length ?? 0]
XtShape(bsz, xt) ==
    << bsz,
       IF Len(xt) >= 1 THEN Len(xt[1]) ELSE 0,
       IF Len(xt) >= 1 /\ Len(xt[1]) >= 1 THEN Len(xt[1][1]) ELSE 0 >>

\* xt.flat(2)
RECURSIVE Flat(_)
Flat(rows) == IF rows = <<>> THEN <<>> ELSE Head(rows) \o Flat(Tail(rows))

\* duration is the list of durations in ticks, none of them negative.
sampleNoisyLatent(duration, cfgs) ==
    IF duration = <<>> THEN [xt |-> <<>>, latentMask |-> <<>>]
    ELSE
    LET bsz           == Len(duration)
        wavLenMax     == FloorSamples(MaxOf(duration), cfgs.ae.sample_rate)
        wavLengths    == [b \in 1..bsz |-> FloorSamples(duration[b], cfgs.ae.sample_rate)]
        chunkSize     == cfgs.ae.base_chunk_size * cfgs.ttl.chunk_compress_factor
        latentLen     == (wavLenMax + chunkSize - 1) \div chunkSize
        latentDimVal  == cfgs.ttl.latent_dim * cfgs.ttl.chunk_compress_factor
        latentLengths == [b \in 1..bsz |-> (wavLengths[b] + chunkSize - 1) \div chunkSize]
        latentMask    == [b \in 1..bsz |-> << lengthToMask(latentLengths[b], latentLen) >>]
    IN  [xt         |-> [b \in 1..bsz |-> [d \in 1..latentDimVal |->
                            [t \in 1..latentLen |-> Gaussian * latentMask[b][1][t]]]],
         latentMask |-> latentMask]

(***************************************************************************)
(* One synthesize call.  A call stops only where it awaits the network or  *)
(* an inference session; what lies between two such awaits is one step.   *)
(***************************************************************************)
\* The indexer table of /models/onnx/unicode_indexer.json, as far as the
\* model's code points go.
DefaultIndexer == [length |-> 65536, seed |-> 1]

\* silenceDurationSeconds ?? 0.3, in ticks
DefaultSilence == (3 * TicksPerSecond) \div 10

IdleRequest ==
    [pc |-> "idle", text |-> <<>>, voiceStyle |-> "F1", totalStep |-> 1, speed |-> 1,
     silenceDuration |-> DefaultSilence,
     loadNo |-> 0, cfgs |-> None, textToSpeech |-> None, style |-> None,
     textList |-> <<>>, chunk |-> 0, step |-> 0, duration |-> 0,
     textIds |-> <<>>, textMask |-> <<>>, textEmb |-> None,
     xt |-> NoLatent, latentMask |-> <<>>,
     wavCat |-> <<>>, durCat |-> 0, durations |-> <<>>, wavs |-> <<>>,
     calls |-> <<>>, error |-> "", result |-> None]

\* The error is caught and the call resolves with what was assembled so far.
RejectedSwallowed(rq, error) ==
    [rq EXCEPT !.pc = "resolved", !.error = error,
               !.result = Some([wavBuffer       |-> writeWavToBuffer(rq.wavCat, 5),
                                sampleRate      |-> 5,
                                durationSeconds |-> rq.durCat])]

Rejected(rq, error) == [rq EXCEPT !.pc = "rejected", !.error = error]

\* The estimator is told the number of steps that remain.
FeedsRemainingSteps(rq, session) ==
    [text_ids    |-> IF session \in {"dp", "text_enc"} THEN Some(rq.textIds) ELSE None,
     text_mask   |-> IF session \in {"dp", "text_enc", "vec_est"}
                     THEN Some(rq.textMask) ELSE None,
     style_dp    |-> IF session = "dp" THEN Some(rq.style[1].dp) ELSE None,
     style_ttl   |-> IF session \in {"text_enc", "vec_est"} THEN Some(rq.style[1].ttl) ELSE None,
     text_emb    |-> IF session = "vec_est" THEN rq.textEmb ELSE None,
     latent_mask |-> IF session = "vec_est" THEN Some(rq.latentMask) ELSE None,
     total_step  |-> rq.totalStep - rq.step]

\* The tensors of the request that a session is run with, besides the latent
\* and the current step: those of lines 140-144, 151-155 and 177-185.
Feeds(rq, session) ==
    [text_ids    |-> IF session \in {"dp", "text_enc"} THEN Some(rq.textIds) ELSE None,
     text_mask   |-> IF session \in {"dp", "text_enc", "vec_est"}
                     THEN Some(rq.textMask) ELSE None,
     style_dp    |-> IF session = "dp" THEN Some(rq.style[1].dp) ELSE None,
     style_ttl   |-> IF session \in {"text_enc", "vec_est"} THEN Some(rq.style[1].ttl) ELSE None,
     text_emb    |-> IF session = "vec_est" THEN rq.textEmb ELSE None,
     latent_mask |-> IF session = "vec_est" THEN Some(rq.latentMask) ELSE None,
     total_step  |-> rq.totalStep]

\* session.run(...) is entered: the call is logged and the request waits.
Run(rq, session) ==
    [rq EXCEPT !.pc = session,
               !.calls = Append(@, [session |-> session, chunk |-> rq.chunk,
                                    current_step |-> rq.step,
                                    total_step   |-> Feeds(rq, session).total_step,
                                    text_ids     |-> Feeds(rq, session).text_ids,
                                    text_mask    |-> Feeds(rq, session).text_mask,
                                    style_dp     |-> Feeds(rq, session).style_dp,
                                    style_ttl    |-> Feeds(rq, session).style_ttl,
                                    text_emb     |-> Feeds(rq, session).text_emb,
                                    latent_mask  |-> Feeds(rq, session).latent_mask,
                                    noisy_latent |->
                                        [dims  |-> XtShape(1, rq.xt.data),
                                         data  |-> Flat(Flat(rq.xt.data)),
                                         steps |-> rq.xt.steps]])]

\* synthesize, from the return of textToSpeech.call to its own return.
Truncate(rq) ==
    LET sampleRate        == rq.textToSpeech[1].sampleRate
        effectiveDuration == rq.durCat
        wavLen            == FloorSamples(effectiveDuration, sampleRate)
        wavOut            == Slice0(rq.wavCat, wavLen)
    IN  [rq EXCEPT !.pc = "resolved",
                   !.result = Some([wavBuffer       |-> writeWavToBuffer(wavOut, sampleRate),
                                    sampleRate      |-> sampleRate,
                                    durationSeconds |-> effectiveDuration])]

\* The UTF-16 code unit of a character of the texts of the calls.
charCodeAt(c) ==
    CASE c = "H" -> 72
      [] c = "i" -> 105
      [] c = "." -> 46
      [] c = "\n" -> 10
      [] OTHER -> 32

\* this.textProcessor.call([chunk]) of line 130
Tokenized(rq) ==
    LET chunk == rq.textList[rq.chunk]
    IN  UnicodeProcessorCall(<< [j \in 1..Len(chunk) |-> charCodeAt(chunk[j])] >>,
                             rq.textToSpeech[1].textProcessor)

\* infer runs the text encoder first.
InferStartTextEncFirst(rq) ==
    Run([rq EXCEPT !.step = 0, !.xt = NoLatent, !.latentMask = <<>>, !.textEmb = None,
                   !.textIds = Tokenized(rq).textIds,
                   !.textMask = Tokenized(rq).textMask], "text_enc")

\* infer, up to its first await: tokens and masks, then dpOrt.run.
InferStart(rq) ==
    Run([rq EXCEPT !.step = 0, !.xt = NoLatent, !.latentMask = <<>>, !.textEmb = None,
                   !.textIds = Tokenized(rq).textIds,
                   !.textMask = Tokenized(rq).textMask], "dp")

\* The head of the for-of loop of TextToSpeech.call.
NextChunkOrReturn(rq) ==
    IF rq.chunk < Len(rq.textList)
    THEN InferStart([rq EXCEPT !.chunk = @ + 1])
    ELSE Truncate(rq)

\* style.ttl.dims[0] === 1
SingleStyle(style) == style.ttl.dims[1] = 1

\* TextToSpeech.call takes the whole text for a chunk where chunkText has none.
CallStartWholeText(rq, style) ==
    IF ~SingleStyle(style)
    THEN Rejected(rq, "Single speaker text to speech only supports single style")
    ELSE NextChunkOrReturn([rq EXCEPT !.style = Some(style),
                                      !.textList = IF chunkText(rq.text, DefaultMaxLen) = <<>>
                                                   THEN << rq.text >>
                                                   ELSE chunkText(rq.text, DefaultMaxLen),
                                      !.wavCat = <<>>, !.durCat = 0, !.chunk = 0])

\* TextToSpeech.call, up to the first await of its first chunk.
CallStart(rq, style) ==
    IF ~SingleStyle(style)
    THEN Rejected(rq, "Single speaker text to speech only supports single style")
    ELSE NextChunkOrReturn([rq EXCEPT !.style = Some(style),
                                      !.textList = chunkText(rq.text, DefaultMaxLen),
                                      !.wavCat = <<>>, !.durCat = 0, !.chunk = 0])

\* The estimator loop tests step < totalStep with <=.
MoreStepsInclusive(step, totalStep) == step <= totalStep

\* step < totalStep
MoreSteps(step, totalStep) == step < totalStep

\* The head of the estimator loop, and what follows the loop.
NextStepOrVocoder(rq) ==
    IF MoreSteps(rq.step, rq.totalStep) THEN Run(rq, "vec_est") ELSE Run(rq, "vocoder")

\* denoisedData[idx] ?? 0
OrZero(denoisedData, idx) == IF idx + 1 <= Len(denoisedData) THEN denoisedData[idx + 1] ELSE 0

\* nextXt takes the number of elements denoised_latent has: as many rows of
\* latentLen elements as it fills.
NextXtOfOutput(bsz, xt, denoisedData) ==
    LET latentDim == IF Len(xt.data) >= 1 THEN Len(xt.data[1]) ELSE 0
        latentLen == IF latentDim >= 1 THEN Len(xt.data[1][1]) ELSE 0
        rows      == IF latentLen = 0 THEN 0 ELSE Min2(latentDim, Len(denoisedData) \div latentLen)
    IN  [data  |-> [b \in 1..bsz |-> [d \in 1..rows |-> [t \in 1..latentLen |->
                       OrZero(denoisedData, ((b - 1) * rows + (d - 1)) * latentLen + (t - 1))]]],
         steps |-> xt.steps + 1]

\* nextXt: bsz batches of latentDim rows of latentLen elements, the sizes
\* being those of xt, filled from denoised_latent in this order.
NextXt(bsz, xt, denoisedData) ==
    LET latentDim == IF Len(xt.data) >= 1 THEN Len(xt.data[1]) ELSE 0
        latentLen == IF latentDim >= 1 THEN Len(xt.data[1][1]) ELSE 0
    IN  [data  |-> [b \in 1..bsz |-> [d \in 1..latentDim |-> [t \in 1..latentLen |->
                       OrZero(denoisedData, ((b - 1) * latentDim + (d - 1)) * latentLen + (t - 1))]]],
         steps |-> xt.steps + 1]

\* wavCat.length === 0
IsFirstChunk(rq) == Len(rq.wavCat) = 0

\* The body of the for-of loop of TextToSpeech.call after infer has returned.
Concatenate(rq, wav, duration) ==
    IF IsFirstChunk(rq)
    THEN [rq EXCEPT !.wavCat = wav, !.durCat = duration]
    ELSE LET silenceLen == FloorSamples(rq.silenceDuration, rq.textToSpeech[1].sampleRate)
         IN  [rq EXCEPT !.wavCat = rq.wavCat \o Zeros(silenceLen) \o wav,
                        !.durCat = rq.durCat + duration + rq.silenceDuration]

\* loadVoiceStyle fetches the asset whatever the cache holds.
ResolveStyleAlwaysFetch(r, rq) ==
    req' = [req EXCEPT ![r] = [rq EXCEPT !.pc = "fetchStyle"]]

\* loadVoiceStyle, up to its await or its return, and what synthesize does next.
ResolveStyle(r, rq) ==
    IF globalStyleCache[rq.voiceStyle] # None
    THEN req' = [req EXCEPT ![r] = CallStart(rq, globalStyleCache[rq.voiceStyle][1])]
    ELSE req' = [req EXCEPT ![r] = [rq EXCEPT !.pc = "fetchStyle"]]


(***************************************************************************)
(* The steps of a synthesize call r.  Every await of the network or of a   *)
(* session may fail; the call then rejects with the error.                 *)
(***************************************************************************)
\* Message r has its response: synthesize has resolved or rejected.
Settled(rq) == rq.pc \in {"resolved", "rejected"}

\* Whatever synthesize did, the worker posts SUCCESS.
WorkerResponseAlwaysSuccess(rq) ==
    [type    |-> "SUCCESS",
     payload |-> IF rq.result # None THEN rq.result
                 ELSE Some([wavBuffer |-> <<>>, sampleRate |-> 0, durationSeconds |-> 0]),
     error   |-> ""]

\* The message the handler posts after synthesize: SUCCESS with the result,
\* or ERROR with error.message (all that synthesize throws is an Error).
WorkerResponse(rq) ==
    IF rq.pc = "resolved"
    THEN [type |-> "SUCCESS", payload |-> rq.result, error |-> ""]
    ELSE [type |-> "ERROR", payload |-> None, error |-> rq.error]

\* The response is put before the responses posted so far.
RespondAhead(r) ==
    posted' = IF ~Settled(req[r]) /\ Settled(req'[r])
              THEN << [to |-> r, message |-> WorkerResponse(req'[r])] >> \o posted
              ELSE posted

\* The rest of the handler, which runs as soon as synthesize has resolved or
\* rejected: self.postMessage.  `to` tells whose response it is; the message
\* itself carries no such field.
Respond(r) ==
    posted' = IF ~Settled(req[r]) /\ Settled(req'[r])
              THEN Append(posted, [to |-> r, message |-> WorkerResponse(req'[r])])
              ELSE posted

\* A message of another type than SYNTHESIZE is received: the handler returns.
OtherMessage(r) ==
    /\ req[r].pc = "idle"
    /\ req' = [req EXCEPT ![r] = [@ EXCEPT !.pc = "ignored"]]
    /\ arrived' = Append(arrived, r)
    /\ UNCHANGED <<globalVars, cfgAsset, loads, assigns, styles, posted>>
    /\ UNCHANGED <<chunkVars, wavVars, tokVars, latentVars, post>>

\* A SYNTHESIZE message is received and the handler calls synthesize: the
\* test of globalTextToSpeech, then either the first fetch of
\* loadTextToSpeechInternal or loadVoiceStyle.
Start(r, texts, voices, steps, speeds, silences) ==
    /\ req[r].pc = "idle"
    /\ \E text \in texts, voiceStyle \in voices, totalStep \in steps,
          speed \in speeds, silence \in silences :
        LET rq == [req[r] EXCEPT !.text = text, !.voiceStyle = voiceStyle,
                                 !.totalStep = totalStep, !.speed = speed,
                                 !.silenceDuration = silence]
        IN  IF globalTextToSpeech = None
            THEN /\ loads' = loads + 1
                 /\ req' = [req EXCEPT ![r] = [rq EXCEPT !.pc = "loadCfgs",
                                                         !.loadNo = loads + 1]]
            ELSE /\ ResolveStyle(r, [rq EXCEPT !.textToSpeech = globalTextToSpeech])
                 /\ UNCHANGED loads
    /\ UNCHANGED <<globalVars, cfgAsset, assigns, styles, chunkVars, wavVars, tokVars, latentVars, post>>
    /\ arrived' = Append(arrived, r)
    /\ Respond(r)

\* loadCfgs: the fetch of tts.json returns.
LoadCfgsReturn(r) ==
    /\ req[r].pc = "loadCfgs"
    /\ \E ok \in BOOLEAN :
        req' = [req EXCEPT ![r] =
                   IF ok THEN [@ EXCEPT !.pc = "loadOnnx", !.cfgs = Some(cfgAsset)]
                   ELSE Rejected(@, "Failed to fetch")]
    /\ UNCHANGED <<globalVars, cfgAsset, loads, assigns, styles, chunkVars, wavVars, tokVars, latentVars, post>>
    /\ UNCHANGED arrived
    /\ Respond(r)

\* Promise.all of the four InferenceSession.create returns.
LoadOnnxReturn(r) ==
    /\ req[r].pc = "loadOnnx"
    /\ \E ok \in BOOLEAN :
        req' = [req EXCEPT ![r] =
                   IF ok THEN [@ EXCEPT !.pc = "loadIndexer"]
                   ELSE Rejected(@, "Failed to create session")]
    /\ UNCHANGED <<globalVars, cfgAsset, loads, assigns, styles, chunkVars, wavVars, tokVars, latentVars, post>>
    /\ UNCHANGED arrived
    /\ Respond(r)

\* globalConfig is assigned as soon as the configuration is there, whether
\* the rest of the load succeeds or not.
LoadIndexerReturnConfigFirst(r) ==
    /\ req[r].pc = "loadIndexer"
    /\ \/ /\ req' = [req EXCEPT ![r] = Rejected(@, "Failed to fetch")]
          /\ globalConfig' = req[r].cfgs
          /\ UNCHANGED <<globalTextToSpeech, globalStyleCache, assigns>>
       \/ LET textToSpeech == [id         |-> req[r].loadNo,
                               cfgs       |-> req[r].cfgs[1],
                               textProcessor |-> DefaultIndexer,
                               sampleRate |-> req[r].cfgs[1].ae.sample_rate]
          IN  /\ globalTextToSpeech' = Some(textToSpeech)
              /\ globalConfig' = req[r].cfgs
              /\ assigns' = assigns + 1
              /\ UNCHANGED globalStyleCache
              /\ ResolveStyle(r, [req[r] EXCEPT !.textToSpeech = Some(textToSpeech)])
    /\ UNCHANGED <<cfgAsset, loads, styles, chunkVars, wavVars, tokVars, latentVars, post>>
    /\ UNCHANGED arrived
    /\ Respond(r)

\* loadTextProcessor returns; loadTextToSpeechInternal returns the new engine;
\* synthesize assigns the globals and goes on to loadVoiceStyle.
LoadIndexerReturn(r) ==
    /\ req[r].pc = "loadIndexer"
    /\ \/ /\ req' = [req EXCEPT ![r] = Rejected(@, "Failed to fetch")]
          /\ UNCHANGED <<globalVars, assigns>>
       \/ LET textToSpeech == [id         |-> req[r].loadNo,
                               cfgs       |-> req[r].cfgs[1],
                               textProcessor |-> DefaultIndexer,
                               sampleRate |-> req[r].cfgs[1].ae.sample_rate]
          IN  /\ globalTextToSpeech' = Some(textToSpeech)
              /\ globalConfig' = req[r].cfgs
              /\ assigns' = assigns + 1
              /\ UNCHANGED globalStyleCache
              /\ ResolveStyle(r, [req[r] EXCEPT !.textToSpeech = Some(textToSpeech)])
    /\ UNCHANGED <<cfgAsset, loads, styles, chunkVars, wavVars, tokVars, latentVars, post>>
    /\ UNCHANGED arrived
    /\ Respond(r)

\* loadVoiceStyle: the fetch of the style asset returns; the tensors are
\* built, the Style is cached, and TextToSpeech.call starts.
FetchStyleReturn(r) ==
    /\ req[r].pc = "fetchStyle"
    /\ LET id   == req[r].voiceStyle
           json == StyleAsset(id)
       IN  \/ /\ req' = [req EXCEPT ![r] = Rejected(@, "Failed to fetch")]
              /\ UNCHANGED <<globalStyleCache, styles>>
           \/ /\ ~(FlatFits(json.style_ttl) /\ FlatFits(json.style_dp))
              /\ req' = [req EXCEPT ![r] = Rejected(@, "RangeError: offset is out of bounds")]
              /\ UNCHANGED <<globalStyleCache, styles>>
           \/ /\ FlatFits(json.style_ttl) /\ FlatFits(json.style_dp)
              /\ globalStyleCache' = [globalStyleCache EXCEPT ![id] = Some(NewStyle(json, styles + 1))]
              /\ styles' = styles + 1
              /\ req' = [req EXCEPT ![r] = CallStart(@, NewStyle(json, styles + 1))]
    /\ UNCHANGED <<globalTextToSpeech, globalConfig, cfgAsset, loads, assigns, chunkVars, wavVars, tokVars, latentVars, post>>
    /\ UNCHANGED arrived
    /\ Respond(r)

\* dpOrt.run returns: duration[i] /= speed, then textEncOrt.run.  The raw
\* durations are the ones speed divides, so that the quotient is exact.
DpReturn(r, rawDurations) ==
    /\ req[r].pc = "dp"
    /\ \/ req' = [req EXCEPT ![r] = Rejected(@, "inference failed")]
       \/ \E raw \in rawDurations :
            /\ raw % req[r].speed = 0
            /\ req' = [req EXCEPT ![r] =
                          Run([@ EXCEPT !.duration = raw \div req[r].speed], "text_enc")]
    /\ UNCHANGED <<globalVars, cfgAsset, loads, assigns, styles, chunkVars, wavVars, tokVars, latentVars, post>>
    /\ UNCHANGED arrived
    /\ Respond(r)

\* The text_emb tensor that the text encoder returns to a call: an opaque
\* object, known by the run that made it.
TextEmbOf(rq) == [madeBy |-> Len(rq.calls), chunk |-> rq.chunk]

\* textEncOrt.run returns: the noisy latent is sampled and the estimator loop
\* is entered.
TextEncReturn(r) ==
    /\ req[r].pc = "text_enc"
    /\ \/ req' = [req EXCEPT ![r] = Rejected(@, "inference failed")]
       \/ LET maskCong == sampleNoisyLatent(<< req[r].duration >>, req[r].textToSpeech[1].cfgs)
          IN  req' = [req EXCEPT ![r] =
                         NextStepOrVocoder([@ EXCEPT !.xt = [data |-> maskCong.xt, steps |-> 0],
                                                     !.latentMask = maskCong.latentMask,
                                                     !.textEmb = Some(TextEmbOf(req[r])),
                                                     !.step = 0])]
    /\ UNCHANGED <<globalVars, cfgAsset, loads, assigns, styles, chunkVars, wavVars, tokVars, latentVars, post>>
    /\ UNCHANGED arrived
    /\ Respond(r)

\* The possible denoised_latent.data of a step: the elements of x_t, or
\* fewer or more by one of `deviations`; the values tell the step.
DenoisedData(rq, deviations) ==
    LET size == Len(Flat(Flat(rq.xt.data)))
    IN  { [i \in 1..(size + dv) |-> rq.step + 2] : dv \in {x \in deviations : size + x >= 0} }

\* vectorEstOrt.run returns: xt = nextXt, step += 1, the loop test.
VecEstReturn(r, deviations) ==
    /\ req[r].pc = "vec_est"
    /\ \/ req' = [req EXCEPT ![r] = Rejected(@, "inference failed")]
       \/ \E denoisedData \in DenoisedData(req[r], deviations) :
            req' = [req EXCEPT ![r] =
                       NextStepOrVocoder([@ EXCEPT !.xt = NextXt(1, @, denoisedData),
                                                   !.step = @ + 1])]
    /\ UNCHANGED <<globalVars, cfgAsset, loads, assigns, styles, chunkVars, wavVars, tokVars, latentVars, post>>
    /\ UNCHANGED arrived
    /\ Respond(r)

\* vocoderOrt.run returns: infer returns, the waveform is appended, and the
\* next chunk starts or call returns and synthesize encodes the result.
VocoderReturn(r, wavOutputs) ==
    /\ req[r].pc = "vocoder"
    /\ \/ req' = [req EXCEPT ![r] = Rejected(@, "inference failed")]
       \/ \E wav \in wavOutputs :
            req' = [req EXCEPT ![r] =
                       NextChunkOrReturn(
                           Concatenate([@ EXCEPT !.durations = Append(@, req[r].duration),
                                                 !.wavs = Append(@, wav)],
                                       wav, req[r].duration))]
    /\ UNCHANGED <<globalVars, cfgAsset, loads, assigns, styles, chunkVars, wavVars, tokVars, latentVars, post>>
    /\ UNCHANGED arrived
    /\ Respond(r)

(***************************************************************************)
(* The POST handler of the API route.  A JSON value is known by its type;  *)
(* a number is counted in hundredths.                                      *)
(***************************************************************************)
Undefined == [t |-> "undefined", s |-> <<>>, n |-> 0, finite |-> TRUE]

Str(s) == [t |-> "string", s |-> s, n |-> 0, finite |-> TRUE]

Num(n) == [t |-> "number", s |-> <<>>, n |-> n, finite |-> TRUE]

\* What JSON.parse makes of a literal such as 1e999.
NumInfinity == [t |-> "number", s |-> <<>>, n |-> 0, finite |-> FALSE]

\* isVoiceStyleId
isVoiceStyleId(value) ==
    value = <<"F", "1">> \/ value = <<"F", "2">> \/ value = <<"M", "1">> \/ value = <<"M", "2">>

\* typeof json.text !== "string" || json.text.trim().length === 0
TextInvalid(json) == json.text.t # "string" \/ Len(Trim(json.text.s)) = 0

\* typeof json.voiceStyle !== "string" || !isVoiceStyleId(json.voiceStyle)
VoiceStyleInvalid(json) == json.voiceStyle.t # "string" \/ ~isVoiceStyleId(json.voiceStyle.s)

\* Math.max(1, json.totalStep) for a finite number: the floor is left out.
TotalStepOfUnfloored(json) ==
    IF json.totalStep.t = "number" /\ json.totalStep.finite
    THEN Max2(100, json.totalStep.n)
    ELSE 500

\* Math.max(1, Math.floor(json.totalStep)) for a finite number, otherwise 5
TotalStepOf(json) ==
    IF json.totalStep.t = "number" /\ json.totalStep.finite
    THEN Max2(100, (json.totalStep.n \div 100) * 100)
    ELSE 500

\* json.speed for a finite number, otherwise 1.05
SpeedOf(json) ==
    IF json.speed.t = "number" /\ json.speed.finite THEN json.speed ELSE Num(105)

JsonResponse(status, message) ==
    [status |-> status, contentType |-> "application/json", error |-> message,
     wavBuffer |-> <<>>, durationSeconds |-> 0, sampleRate |-> 0]

AudioResponse(result) ==
    [status |-> 200, contentType |-> "audio/wav", error |-> "",
     wavBuffer |-> result.wavBuffer, durationSeconds |-> result.durationSeconds,
     sampleRate |-> result.sampleRate]

\* The catch block reports the generic message whatever was thrown.
CaughtMessageGeneric(thrown) == "Unknown error during synthesis."

\* error instanceof Error ? error.message : "Unknown error during synthesis."
CaughtMessage(thrown) ==
    IF thrown.isError THEN thrown.message ELSE "Unknown error during synthesis."

\* The catch block
Caught(p, thrown) ==
    [p EXCEPT !.pc = "done", !.thrown = Some(thrown),
              !.responses = Append(@, JsonResponse(500, CaughtMessage(thrown)))]

\* The two messages of status 400; the field names are quoted in the source.
TextMessage == "Field text must be a non-empty string."

VoiceStyleMessage == "Field voiceStyle must be one of: F1, F2, M1, M2."

\* POST from the return of request.json() to its next await or its return:
\* reading json.text of null throws a TypeError, which the catch block takes.
Validate(p, parsed) ==
    IF parsed.kind = "null"
    THEN Caught(p, [isError |-> TRUE,
                    message |-> "Cannot read properties of null (reading 'text')"])
    ELSE IF TextInvalid(parsed)
    THEN [p EXCEPT !.pc = "done",
                   !.responses = Append(@, JsonResponse(400,
                                     TextMessage))]
    ELSE IF VoiceStyleInvalid(parsed)
    THEN [p EXCEPT !.pc = "done",
                   !.responses = Append(@, JsonResponse(400,
                                     VoiceStyleMessage))]
    ELSE [p EXCEPT !.pc = "synth",
                   !.synthCalls = Append(@, [text |-> parsed.text.s,
                                             voiceStyle |-> parsed.voiceStyle.s,
                                             totalStep |-> TotalStepOf(parsed),
                                             speed |-> SpeedOf(parsed)])]

\* The request bodies the model posts: an object with any of the four fields
\* absent or of any of these values, the JSON text null, or a body that is
\* no JSON text.
Texts == {Undefined, Num(500), Str(<<>>), Str(<<" ", "\n">>), Str(<<"H", "i", ".">>)}

VoiceStyles ==
    {Undefined, Num(100), Str(<<"F", "1">>), Str(<<"F", "2">>), Str(<<"M", "1">>),
     Str(<<"M", "2">>), Str(<<"f", "1">>), Str(<<>>)}

TotalSteps == {Undefined, Str(<<"3">>), NumInfinity, Num(-300), Num(0), Num(250), Num(700)}

Speeds == {Undefined, Str(<<"2">>), NumInfinity, Num(200)}

Bodies ==
    { [kind |-> "object", text |-> t, voiceStyle |-> v, totalStep |-> n, speed |-> sp] :
          t \in Texts, v \in VoiceStyles, n \in TotalSteps, sp \in Speeds }
    \cup { [kind |-> k, text |-> Undefined, voiceStyle |-> Undefined,
            totalStep |-> Undefined, speed |-> Undefined] : k \in {"null", "malformed"} }

\* What synthesizeToWavBuffer resolves with.
SynthResults ==
    { [wavBuffer |-> writeWavToBuffer(wav, 24000), sampleRate |-> 24000,
       durationSeconds |-> Len(wav)] : wav \in { <<>>, <<1>> } }

\* What synthesizeToWavBuffer throws: an Error of the runtime, or any value.
SynthThrown ==
    { [isError |-> TRUE, message |-> "inference failed"],
      [isError |-> TRUE, message |-> ""],
      [isError |-> FALSE, message |-> "not an Error"] }

IdlePost ==
    [pc |-> "idle", body |-> None, synthCalls |-> <<>>, thrown |-> None, responses |-> <<>>]

\* A request arrives: POST is called and awaits request.json().
PostRequest ==
    /\ post.pc = "idle"
    /\ \E body \in Bodies :
         post' = [post EXCEPT !.pc = "json", !.body = Some(body)]
    /\ UNCHANGED <<chunkVars, wavVars, engineVars, tokVars, latentVars>>

\* request.json() returns or throws.
JsonReturn ==
    /\ post.pc = "json"
    /\ post' = IF post.body[1].kind = "malformed"
               THEN Caught(post, [isError |-> TRUE, message |-> "Unexpected token"])
               ELSE Validate(post, post.body[1])
    /\ UNCHANGED <<chunkVars, wavVars, engineVars, tokVars, latentVars>>

\* synthesizeToWavBuffer returns or throws.
SynthReturn ==
    /\ post.pc = "synth"
    /\ \/ \E result \in SynthResults :
            post' = [post EXCEPT !.pc = "done",
                                 !.responses = Append(@, AudioResponse(result))]
       \/ \E thrown \in SynthThrown : post' = Caught(post, thrown)
    /\ UNCHANGED <<chunkVars, wavVars, engineVars, tokVars, latentVars>>

(***************************************************************************)
(* Specifications                                                          *)
(***************************************************************************)
ChunkIdle ==
    /\ ctInput = <<>>
    /\ ctTokens = 0
    /\ ctMaxLen = DefaultMaxLen
    /\ ctParas = <<>>
    /\ ctSents = <<>>
    /\ ctChunks = <<>>
    /\ ctDone = FALSE

WavIdle ==
    /\ wavAudio = <<>>
    /\ wavBuffer = <<>>
    /\ wavDone = FALSE

TokIdle ==
    /\ upTextList = <<>>
    /\ upOut = [textIds |-> <<>>, textMask |-> <<>>]
    /\ upDone = FALSE

LatentIdle ==
    /\ slDuration = <<>>
    /\ slOut = [xt |-> <<>>, latentMask |-> <<>>]
    /\ slDone = FALSE

\* Nothing is posted, tokenized or sampled on its own.
OthersIdle ==
    /\ TokIdle
    /\ upIndexer = DefaultIndexer
    /\ LatentIdle
    /\ post = IdlePost

\* The synthesize calls the model follows.
Requests == {1, 2}

\* The module state before the first call (lines 333-335).
EngineIdle ==
    /\ globalTextToSpeech = None
    /\ globalConfig = None
    /\ globalStyleCache = [id \in VoiceStyleIds |-> None]
    /\ loads = 0
    /\ assigns = 0
    /\ styles = 0
    /\ req = [r \in Requests |-> IdleRequest]
    /\ arrived = <<>>
    /\ posted = <<>>

(* The chunker: a text is typed token by token, then chunkText is called. *)
MaxTokens == 4

BaseTokens ==
    { <<"a">>, <<"b", ".">>, <<"c", "c", "!">>, <<"d", "?">>, <<"K", ".">>,
      <<" ">>, <<"\n">> }

\* "Mr. Smith went to Dr. Jones."
ExampleText ==
    << "M", "r", ".", " ", "S", "m", "i", "t", "h", " ", "w", "e", "n", "t", " ",
       "t", "o", " ", "D", "r", ".", " ", "J", "o", "n", "e", "s", "." >>

MaxLens == {1, 5, DefaultMaxLen}

InitChunk ==
    /\ ChunkIdle
    /\ WavIdle
    /\ wavRate = 0
    /\ EngineIdle
    /\ OthersIdle
    /\ cfgAsset \in {c \in CfgAssets : c.ae.sample_rate = 5}

TypeToken ==
    /\ ~ctDone
    /\ ctTokens < MaxTokens
    /\ \E t \in BaseTokens : ctInput' = ctInput \o t
    /\ ctTokens' = ctTokens + 1
    /\ UNCHANGED <<ctMaxLen, ctParas, ctSents, ctChunks, ctDone, wavVars, engineVars, tokVars, latentVars, post>>

\* One of the abbreviations, as the first token of a text.
TypeAbbrev ==
    /\ ~ctDone
    /\ ctTokens = 0
    /\ \E t \in AbbrevLookbehind : ctInput' = t
    /\ ctTokens' = 1
    /\ UNCHANGED <<ctMaxLen, ctParas, ctSents, ctChunks, ctDone, wavVars, engineVars, tokVars, latentVars, post>>

\* The example sentence of the specification, as a whole text.
TypeExample ==
    /\ ~ctDone
    /\ ctTokens = 0
    /\ ctInput' = ExampleText
    /\ ctTokens' = MaxTokens
    /\ UNCHANGED <<ctMaxLen, ctParas, ctSents, ctChunks, ctDone, wavVars, engineVars, tokVars, latentVars, post>>

CallChunkText ==
    /\ ~ctDone
    /\ \E m \in MaxLens :
        /\ ctMaxLen' = m
        /\ ctChunks' = chunkText(ctInput, m)
    /\ ctParas' = Paragraphs(ctInput)
    /\ ctSents' = [k \in 1..Len(ctParas') |-> Sentences(ctParas'[k])]
    /\ ctDone' = TRUE
    /\ UNCHANGED <<ctInput, ctTokens, wavVars, engineVars, tokVars, latentVars, post>>

NextChunk == TypeToken \/ TypeAbbrev \/ TypeExample \/ CallChunkText

SpecChunk == InitChunk /\ [][NextChunk]_vars

(* The WAV encoder: samples are pushed one by one, then the buffer is     *)
(* written at one of the sample rates.                                    *)
MaxSamples == 2

\* Samples in 1/SampleDen: -100, -1.5, -1, -0.5, 0, 0.5, 1, 1.5, 100
SampleValues == {-200, -3, -2, -1, 0, 1, 2, 3, 200}

SampleRates == {8000, 24000, 44100, 48000}

InitWav ==
    /\ ChunkIdle
    /\ WavIdle
    /\ wavRate \in SampleRates
    /\ EngineIdle
    /\ OthersIdle
    /\ cfgAsset \in {c \in CfgAssets : c.ae.sample_rate = 5}

PushSample ==
    /\ ~wavDone
    /\ Len(wavAudio) < MaxSamples
    /\ \E v \in SampleValues : wavAudio' = Append(wavAudio, v)
    /\ UNCHANGED <<wavRate, wavBuffer, wavDone, chunkVars, engineVars, tokVars, latentVars, post>>

WriteWav ==
    /\ ~wavDone
    /\ wavBuffer' = writeWavToBuffer(wavAudio, wavRate)
    /\ wavDone' = TRUE
    /\ UNCHANGED <<wavAudio, wavRate, chunkVars, engineVars, tokVars, latentVars, post>>

NextWav == PushSample \/ WriteWav

SpecWav == InitWav /\ [][NextWav]_vars

(* One synthesize call with every outcome of the sessions: texts of up to *)
(* MaxChunks paragraphs, up to MaxStep estimator steps.                   *)
MaxChunks == 2

MaxStep == 2

\* n one-sentence paragraphs: "Hi.", "Hi.\n\nHi.", ...
RECURSIVE ParagraphText(_)
ParagraphText(n) ==
    IF n = 0 THEN <<>>
    ELSE IF n = 1 THEN <<"H", "i", ".">>
    ELSE ParagraphText(n - 1) \o <<"\n", "\n", "H", "i", ".">>

\* Outputs of the duration predictor, in ticks.
RawDurations == {0, 2, 6}

\* Outputs of the vocoder, in 1/SampleDen.
WavOutputs == { <<>>, <<1>>, <<2, -3>> }

InitCall ==
    /\ ChunkIdle
    /\ WavIdle
    /\ wavRate = 0
    /\ EngineIdle
    /\ OthersIdle
    /\ cfgAsset \in CfgAssets

\* A text of whitespace only: a space, a blank line, a tab.
BlankText == <<" ", "\n", "\n", "\t">>

NextCall ==
    \/ Start(1, {ParagraphText(n) : n \in 0..MaxChunks} \cup {BlankText}, {"F1", "F2", "M1"},
             1..MaxStep, {1, 2}, {DefaultSilence})
    \/ LoadCfgsReturn(1)
    \/ LoadOnnxReturn(1)
    \/ LoadIndexerReturn(1)
    \/ FetchStyleReturn(1)
    \/ DpReturn(1, RawDurations)
    \/ TextEncReturn(1)
    \/ VecEstReturn(1, {-1, 0, 1})
    \/ VocoderReturn(1, WavOutputs)

SpecCall == InitCall /\ [][NextCall]_vars

(* The tokenizer: a text is typed code point by code point, another text  *)
(* may join the batch, then UnicodeProcessor.call is called.              *)
MaxCodePoints == 2

\* A, e, combining acute, e-acute, the fi ligature, fullwidth A, the
\* grinning face U+1F600, mathematical bold A U+1D400.
TypedCodePoints == {65, 101, 769, 233, 64257, 65313, 128512, 119808}

\* "", "AAAA", the grinning face, fi ligature and combining acute
OtherTexts == { <<>>, <<65, 65, 65, 65>>, <<128512>>, <<64257, 769>> }

\* Tables of no entry, of the ASCII range, and of the whole BMP.
Indexers == { [length |-> n, seed |-> 1] : n \in {0, 128, 65536} }

InitTok ==
    /\ ChunkIdle
    /\ WavIdle
    /\ wavRate = 0
    /\ EngineIdle
    /\ cfgAsset \in {c \in CfgAssets : c.ae.sample_rate = 5}
    /\ TokIdle
    /\ upIndexer \in Indexers
    /\ LatentIdle
    /\ post = IdlePost

NewText ==
    /\ ~upDone
    /\ upTextList = <<>>
    /\ upTextList' = << <<>> >>
    /\ UNCHANGED <<upIndexer, upOut, upDone, chunkVars, wavVars, engineVars, latentVars, post>>

TypeCodePoint ==
    /\ ~upDone
    /\ Len(upTextList) = 1
    /\ Len(CodePoints(upTextList[1], 0)) < MaxCodePoints
    /\ \E cp \in TypedCodePoints :
         upTextList' = [upTextList EXCEPT ![1] = @ \o EncodeUTF16(<< cp >>)]
    /\ UNCHANGED <<upIndexer, upOut, upDone, chunkVars, wavVars, engineVars, latentVars, post>>

AddText ==
    /\ ~upDone
    /\ Len(upTextList) = 1
    /\ \E cps \in OtherTexts : upTextList' = Append(upTextList, EncodeUTF16(cps))
    /\ UNCHANGED <<upIndexer, upOut, upDone, chunkVars, wavVars, engineVars, latentVars, post>>

CallUnicodeProcessor ==
    /\ ~upDone
    /\ upOut' = UnicodeProcessorCall(upTextList, upIndexer)
    /\ upDone' = TRUE
    /\ UNCHANGED <<upTextList, upIndexer, chunkVars, wavVars, engineVars, latentVars, post>>

NextTok == NewText \/ TypeCodePoint \/ AddText \/ CallUnicodeProcessor

SpecTok == InitTok /\ [][NextTok]_vars

(* The latent sampler: a list of durations, then sampleNoisyLatent.       *)
MaxBatch == 2

\* Durations of 0 to 0.6 s, in ticks.
LatentDurations == 0..6

PushDuration ==
    /\ ~slDone
    /\ Len(slDuration) < MaxBatch
    /\ \E d \in LatentDurations : slDuration' = Append(slDuration, d)
    /\ UNCHANGED <<slOut, slDone, chunkVars, wavVars, engineVars, tokVars, post>>

CallSampleNoisyLatent ==
    /\ ~slDone
    /\ slOut' = sampleNoisyLatent(slDuration, cfgAsset)
    /\ slDone' = TRUE
    /\ UNCHANGED <<slDuration, chunkVars, wavVars, engineVars, tokVars, post>>

NextLatent == PushDuration \/ CallSampleNoisyLatent

InitLatent ==
    /\ ChunkIdle
    /\ WavIdle
    /\ wavRate = 0
    /\ EngineIdle
    /\ OthersIdle
    /\ cfgAsset \in CfgAssets

SpecLatent == InitLatent /\ [][NextLatent]_vars

(* The API route: one POST, from the request to the response.             *)
NextPost == PostRequest \/ JsonReturn \/ SynthReturn

InitPost ==
    /\ ChunkIdle
    /\ WavIdle
    /\ wavRate = 0
    /\ EngineIdle
    /\ OthersIdle
    /\ cfgAsset \in {c \in CfgAssets : c.ae.sample_rate = 5}

SpecPost == InitPost /\ [][NextPost]_vars

(* Concurrent synthesize calls, interleaved at every await.               *)
Init ==
    /\ ChunkIdle
    /\ WavIdle
    /\ wavRate = 0
    /\ EngineIdle
    /\ OthersIdle
    /\ cfgAsset \in {c \in CfgAssets : c.ae.sample_rate = 5}

Next ==
    \E r \in Requests :
        \/ Start(r, {ParagraphText(0), ParagraphText(1)}, {"F1", "F2"},
                 {1}, {1}, {DefaultSilence})
        \/ LoadCfgsReturn(r)
        \/ LoadOnnxReturn(r)
        \/ LoadIndexerReturn(r)
        \/ FetchStyleReturn(r)
        \/ DpReturn(r, {2})
        \/ TextEncReturn(r)
        \/ VecEstReturn(r, {0})
        \/ VocoderReturn(r, {<<1>>})
        \/ OtherMessage(r)

Spec == Init /\ [][Next]_vars

\* What call r awaits returns: a fetch, the creation of the sessions, or the
\* run of a session.
Returns(r) ==
    \/ LoadCfgsReturn(r)
    \/ LoadOnnxReturn(r)
    \/ LoadIndexerReturn(r)
    \/ FetchStyleReturn(r)
    \/ DpReturn(r, {2})
    \/ TextEncReturn(r)
    \/ VecEstReturn(r, {0})
    \/ VocoderReturn(r, {<<1>>})

\* The worker where every fetch and every session run comes to an end.
SpecWorker == Init /\ [][Next]_vars /\ \A r \in Requests : WF_vars(Returns(r))

(***************************************************************************)
(* Properties of the session manager and of the voice-style store          *)
(***************************************************************************)
Loading(r) == req[r].pc \in {"loadCfgs", "loadOnnx", "loadIndexer"}

\* C1 as stated: however the first calls interleave, loadTextToSpeechInternal
\* never runs twice at once and globalTextToSpeech is assigned at most once.
C1_SingleInitialization ==
    /\ \A r1, r2 \in Requests : (Loading(r1) /\ Loading(r2)) => r1 = r2
    /\ assigns <= 1

SingleSpeakerError == "Single speaker text to speech only supports single style"

DeclaresTwoStyles(r) ==
    /\ req[r].pc # "idle"
    /\ StyleAsset(req[r].voiceStyle).style_ttl.dims[1] # 1

\* C2 as stated: a call for a voice whose asset declares style_ttl.dims[0] # 1
\* runs no inference session and, unless loading or fetching itself failed,
\* rejects with the single-speaker error.
C2_TwoStylesRejected ==
    \A r \in Requests :
        DeclaresTwoStyles(r) =>
            /\ req[r].calls = <<>>
            /\ req[r].pc # "resolved"
            /\ req[r].pc = "rejected" =>
                   req[r].error \in {SingleSpeakerError, "Failed to fetch",
                                     "Failed to create session"}

(***************************************************************************)
(* Properties of infer and of the waveform assembly                        *)
(***************************************************************************)
\* The estimator calls of chunk c, in the order they were made.
EstimatorCalls(r, c) ==
    SelectSeq(req[r].calls, LAMBDA e : e.session = "vec_est" /\ e.chunk = c)

VocoderCalled(r, c) ==
    \E i \in 1..Len(req[r].calls) :
        req[r].calls[i].session = "vocoder" /\ req[r].calls[i].chunk = c

\* C3: the estimator calls of a chunk are calls 0, 1, ... in this order, call
\* k carrying current_step k, total_step totalStep and the x_t made of the k
\* outputs before it; there are never more than totalStep, and exactly
\* totalStep once the vocoder is called for the chunk.
C3_EstimatorCalls ==
    \A r \in Requests : \A c \in 1..Len(req[r].textList) :
        LET est == EstimatorCalls(r, c)
        IN  /\ Len(est) <= req[r].totalStep
            /\ \A i \in 1..Len(est) :
                   /\ est[i].current_step = i - 1
                   /\ est[i].total_step = req[r].totalStep
                   /\ est[i].noisy_latent.steps = i - 1
            /\ VocoderCalled(r, c) => Len(est) = req[r].totalStep

\* A call of two chunks has resolved, with one estimator step or with more.
C3_Witness ==
    \E r \in Requests :
        /\ req[r].pc = "resolved"
        /\ Len(req[r].textList) = 2
        /\ req[r].totalStep = 2
        /\ Len(EstimatorCalls(r, 2)) = 2

RECURSIVE SumSeq(_)
SumSeq(q) == IF q = <<>> THEN 0 ELSE Head(q) + SumSeq(Tail(q))

\* The first waveform, then silence and the next waveform for every other one.
RECURSIVE JoinWithSilence(_, _)
JoinWithSilence(wavs, silenceLen) ==
    IF Len(wavs) = 0 THEN <<>>
    ELSE IF Len(wavs) = 1 THEN wavs[1]
    ELSE JoinWithSilence(SubSeq(wavs, 1, Len(wavs) - 1), silenceLen)
             \o [i \in 1..silenceLen |-> 0] \o wavs[Len(wavs)]

SilenceSamples(r) ==
    (req[r].silenceDuration * req[r].textToSpeech[1].sampleRate) \div TicksPerSecond

Resolved(r) == req[r].pc = "resolved"

\* C4 as stated: the assembled waveform is chunk 1's waveform and, for every
\* later chunk, the silence and the chunk's waveform, whatever their lengths.
C4_WaveformAssembled ==
    \A r \in Requests :
        (Resolved(r) /\ Len(req[r].textList) >= 1) =>
            /\ req[r].wavCat = JoinWithSilence(req[r].wavs, SilenceSamples(r))
            /\ Len(req[r].wavCat) =
                   SumSeq([i \in 1..Len(req[r].wavs) |-> Len(req[r].wavs[i])])
                   + (Len(req[r].wavs) - 1) * SilenceSamples(r)

\* C5 as stated: the total duration is the sum of the chunks' durations plus
\* the silence for every gap, whatever the waveforms' lengths.
C5_DurationAccumulated ==
    \A r \in Requests :
        (Resolved(r) /\ Len(req[r].textList) >= 1) =>
            /\ Len(req[r].durations) = Len(req[r].textList)
            /\ req[r].result[1].durationSeconds =
                   SumSeq(req[r].durations)
                   + (Len(req[r].textList) - 1) * req[r].silenceDuration

(***************************************************************************)
(* Properties of the truncation and of the WAV encoder                     *)
(***************************************************************************)
\* Little-endian fields of a buffer, off counted from 0.
LE16(b, off) == b[off + 1] + 256 * b[off + 2]

LE32(b, off) == b[off + 1] + 256 * b[off + 2] + 65536 * b[off + 3] + 16777216 * b[off + 4]

\* The number of 16-bit samples the data chunk of a WAV buffer holds.
DecodedSamples(b) == LE32(b, 40) \div 2

\* C6: the WAV of a resolved call holds min(W, floor(sampleRate * D)) samples,
\* W the length of the assembled waveform and D the reported duration.
C6_TruncatedLength ==
    \A r \in Requests :
        Resolved(r) =>
            LET res   == req[r].result[1]
                W     == Len(req[r].wavCat)
                limit == (res.sampleRate * res.durationSeconds) \div TicksPerSecond
                N     == DecodedSamples(res.wavBuffer)
            IN  /\ res.durationSeconds >= 0
                /\ Len(res.wavBuffer) = 44 + 2 * N
                /\ N = (IF W <= limit THEN W ELSE limit)
                /\ N <= limit + 1
                /\ N <= W

\* A resolved call whose waveform was cut, and cut to more than nothing.
C6_Witness ==
    \E r \in Requests :
        /\ Resolved(r)
        /\ DecodedSamples(req[r].result[1].wavBuffer) < Len(req[r].wavCat)
        /\ DecodedSamples(req[r].result[1].wavBuffer) > 0

\* C7: the buffer is 44 + 2N bytes long and its header reads RIFF, size
\* 36 + 2N, WAVE, fmt, 16, PCM, 1 channel, the sample rate, byte rate
\* 2 * sampleRate, block align 2, 16 bits, data, size 2N.
C7_WavHeader ==
    wavDone =>
        LET N == Len(wavAudio)
        IN  /\ Len(wavBuffer) = 44 + 2 * N
            /\ \A i \in 1..Len(wavBuffer) : wavBuffer[i] \in 0..255
            /\ SubSeq(wavBuffer, 1, 4) = << 82, 73, 70, 70 >>
            /\ LE32(wavBuffer, 4) = 36 + 2 * N
            /\ SubSeq(wavBuffer, 9, 12) = << 87, 65, 86, 69 >>
            /\ SubSeq(wavBuffer, 13, 16) = << 102, 109, 116, 32 >>
            /\ LE32(wavBuffer, 16) = 16
            /\ LE16(wavBuffer, 20) = 1
            /\ LE16(wavBuffer, 22) = 1
            /\ LE32(wavBuffer, 24) = wavRate
            /\ LE32(wavBuffer, 28) = 2 * wavRate
            /\ LE16(wavBuffer, 32) = 2
            /\ LE16(wavBuffer, 34) = 16
            /\ SubSeq(wavBuffer, 37, 40) = << 100, 97, 116, 97 >>
            /\ LE32(wavBuffer, 40) = 2 * N
            /\ DecodedSamples(wavBuffer) = N

\* A buffer written for two samples or more.
C7_Witness == wavDone /\ Len(wavAudio) >= 2 /\ Len(wavBuffer) = 44 + 2 * Len(wavAudio)

(***************************************************************************)
(* Properties of the chunker                                               *)
(***************************************************************************)
\* Two newlines with nothing but whitespace between them.
HasBlankLine(s) ==
    \E i, j \in 1..Len(s) :
        /\ i < j
        /\ s[i] = "\n"
        /\ s[j] = "\n"
        /\ \A k \in i..j : s[k] \in WhiteSpace

\* s with every run of whitespace replaced by one space.
RECURSIVE CollapseWhiteSpace(_)
CollapseWhiteSpace(s) ==
    IF s = <<>> THEN <<>>
    ELSE IF Head(s) \in WhiteSpace
         THEN IF Len(s) > 1 /\ s[2] \in WhiteSpace
              THEN CollapseWhiteSpace(Tail(s))
              ELSE <<" ">> \o CollapseWhiteSpace(Tail(s))
         ELSE <<Head(s)>> \o CollapseWhiteSpace(Tail(s))

\* Whitespace that follows '.', '!' or '?' in t is always one single space.
SingleSpaceAfterPunctuation(t) ==
    \A i \in 2..Len(t) :
        (t[i] \in WhiteSpace /\ t[i - 1] \in SentenceEnd)
            => (t[i] = " " /\ (i < Len(t) => t[i + 1] \notin WhiteSpace))

ShortInput == ctDone /\ Len(ctInput) <= ctMaxLen /\ ~HasBlankLine(ctInput)

\* C8 as stated: a text no longer than max_len with no blank-line separator
\* comes back as the one-element list [s.trim()].
C8_ShortInputIsItsTrim == ShortInput => ctChunks = << Trim(ctInput) >>

\* C8 amended: such a text with a non-whitespace character comes back as one
\* chunk that differs from s.trim() in whitespace runs only and is s.trim()
\* when every whitespace run after '.', '!' or '?' is one space; such a text
\* without a non-whitespace character comes back as the empty list.
C8_ShortInputIsOneNormalisedChunk ==
    ShortInput =>
        IF Trim(ctInput) = <<>>
        THEN ctChunks = <<>>
        ELSE /\ Len(ctChunks) = 1
             /\ CollapseWhiteSpace(ctChunks[1]) = CollapseWhiteSpace(Trim(ctInput))
             /\ Len(ctChunks[1]) <= Len(Trim(ctInput))
             /\ SingleSpaceAfterPunctuation(Trim(ctInput)) => ctChunks[1] = Trim(ctInput)

\* Two sentences that fill max_len exactly and come back as one chunk.
C8_Witness ==
    /\ ShortInput
    /\ Len(ctInput) = ctMaxLen
    /\ Len(ctSents) = 1
    /\ Len(ctSents[1]) = 2
    /\ ctChunks = << ctInput >>

\* C9 as stated: every returned chunk is at most max_len long.
C9_ChunksBounded ==
    ctDone => \A k \in 1..Len(ctChunks) : Len(ctChunks[k]) <= ctMaxLen

\* The abbreviations the specification lists.
ListedAbbreviations ==
    { <<"M", "r", ".">>, <<"M", "r", "s", ".">>, <<"M", "s", ".">>,
      <<"D", "r", ".">>, <<"P", "r", "o", "f", ".">>, <<"S", "r", ".">>,
      <<"J", "r", ".">>, <<"P", "h", ".", "D", ".">>, <<"e", "t", "c", ".">>,
      <<"e", ".", "g", ".">>, <<"i", ".", "e", ".">>, <<"v", "s", ".">>,
      <<"I", "n", "c", ".">>, <<"L", "t", "d", ".">>, <<"C", "o", ".">>,
      <<"C", "o", "r", "p", ".">>, <<"S", "t", ".">>, <<"A", "v", "e", ".">>,
      <<"B", "l", "v", "d", ".">> }

\* t ends with a listed abbreviation, or with one upper-case letter that
\* stands alone as a word and a period.
EndsWithAbbreviation(t) ==
    \/ \E a \in ListedAbbreviations :
           Len(a) <= Len(t) /\ SubSeq(t, Len(t) - Len(a) + 1, Len(t)) = a
    \/ /\ Len(t) >= 2
       /\ t[Len(t)] = "."
       /\ t[Len(t) - 1] \in UpperCase
       /\ (Len(t) = 2 \/ t[Len(t) - 2] \notin WordChars)

\* C10: within a paragraph no sentence boundary directly follows a listed
\* abbreviation or a single upper-case initial (no sentence but the last of a
\* paragraph ends with one), and the example text is one sentence, one chunk.
C10_NoSplitAfterAbbreviation ==
    ctDone =>
        /\ \A p \in 1..Len(ctSents) : \A k \in 1..(Len(ctSents[p]) - 1) :
               ~EndsWithAbbreviation(ctSents[p][k])
        /\ ctInput = ExampleText =>
               (ctSents = << << ExampleText >> >> /\ ctChunks = << ExampleText >>)

\* The example text, chunked with the smallest max_len, is one chunk although
\* whitespace follows "Mr." and "Dr." in it.
C10_Witness ==
    /\ ctDone
    /\ ctMaxLen = 1
    /\ ctInput = ExampleText
    /\ ctChunks = << ExampleText >>

(***************************************************************************)
(* Properties of the tokenizer                                             *)
(***************************************************************************)
\* The code points of a text after NFKC normalization.
NormalizedCodePoints(text) == NFKC(CodePoints(text, 0))

Ones(row) == Cardinality({j \in 1..Len(row) : row[j] = 1})

\* C11 as stated: all rows of textIds and of textMask have one length; the
\* mask is made of 0 and 1; row i has as many ones as text i has code points
\* after normalization, they come first, and the token ids after them are 0.
C11_MaskCountsCodePoints ==
    upDone =>
        \A i \in 1..Len(upTextList) :
            LET n    == Len(NormalizedCodePoints(upTextList[i]))
                ids  == upOut.textIds[i]
                mask == upOut.textMask[i][1]
            IN  /\ \A k \in 1..Len(upTextList) :
                       /\ Len(upOut.textIds[k]) = Len(ids)
                       /\ Len(upOut.textMask[k][1]) = Len(ids)
                /\ \A j \in 1..Len(mask) : mask[j] \in {0, 1}
                /\ Ones(mask) = n
                /\ \A j \in 1..Len(mask) : (mask[j] = 1) <=> (j <= n)
                /\ \A j \in 1..Len(ids) : j > n => ids[j] = 0

\* C12 as stated: the tokens of text i (the part of row i the mask covers)
\* are, for each code point cp of the normalized text in order, the table's
\* entry when cp is less than the table's length and -1 otherwise, and
\* nothing else.
C12_TokensOfCodePoints ==
    upDone =>
        \A i \in 1..Len(upTextList) :
            LET cps == NormalizedCodePoints(upTextList[i])
            IN  SubSeq(upOut.textIds[i], 1, Ones(upOut.textMask[i][1])) =
                    [k \in 1..Len(cps) |->
                        IF cps[k] < upIndexer.length
                        THEN IndexerAt(upIndexer, cps[k]) ELSE -1]

(***************************************************************************)
(* Properties of the latent sampler                                        *)
(***************************************************************************)
\* The smallest integer that is at least a / b, for b > 0.
Ceil(a, b) == (a + b - 1) \div b

ChunkSizeOf(cfgs) == cfgs.ae.base_chunk_size * cfgs.ttl.chunk_compress_factor

\* floor(duration_i * sample_rate)
WavLengthOf(ticks, cfgs) == (ticks * cfgs.ae.sample_rate) \div TicksPerSecond

\* C13 as stated: row i of the latent mask has exactly
\* ceil((floor(duration_i * sample_rate) + chunk_size - 1) / chunk_size) ones.
C13_MaskOnesCeilOfSum ==
    slDone =>
        \A i \in 1..Len(slDuration) :
            Ones(slOut.latentMask[i][1]) =
                Ceil(WavLengthOf(slDuration[i], cfgAsset) + ChunkSizeOf(cfgAsset) - 1,
                     ChunkSizeOf(cfgAsset))

\* C13 amended: row i of the latent mask has exactly
\* floor((floor(duration_i * sample_rate) + chunk_size - 1) / chunk_size) ones,
\* which is ceil(floor(duration_i * sample_rate) / chunk_size); they come
\* first, and every row is as long as the latent of the longest duration.
C13_MaskOnesCeilOfQuotient ==
    slDone =>
        \A i \in 1..Len(slDuration) :
            LET row  == slOut.latentMask[i][1]
                ones == (WavLengthOf(slDuration[i], cfgAsset) + ChunkSizeOf(cfgAsset) - 1)
                            \div ChunkSizeOf(cfgAsset)
            IN  /\ Ones(row) = ones
                /\ ones = Ceil(WavLengthOf(slDuration[i], cfgAsset), ChunkSizeOf(cfgAsset))
                /\ \A j \in 1..Len(row) : row[j] = (IF j <= ones THEN 1 ELSE 0)
                /\ Len(row) = XtShape(Len(slDuration), slOut.xt)[3]

\* A batch of two durations whose first row is partly masked.
C13_Witness ==
    /\ slDone
    /\ Len(slDuration) = 2
    /\ Ones(slOut.latentMask[1][1]) >= 1
    /\ Ones(slOut.latentMask[1][1]) < Len(slOut.latentMask[1][1])

(***************************************************************************)
(* Properties of the denoising loop                                        *)
(***************************************************************************)
\* The duration of chunk c of call r, once the duration predictor returned.
ChunkDuration(r, c) ==
    IF c <= Len(req[r].durations) THEN req[r].durations[c] ELSE req[r].duration

\* [bsz, latent_dim * chunk_compress_factor, latent_len] for chunk c
LatentShape(r, c) ==
    LET cfgs == req[r].textToSpeech[1].cfgs
    IN  << 1, cfgs.ttl.latent_dim * cfgs.ttl.chunk_compress_factor,
           Ceil(WavLengthOf(ChunkDuration(r, c), cfgs), ChunkSizeOf(cfgs)) >>

\* A nested array of exactly the shape dims.
HasShape(xt, dims) ==
    /\ Len(xt) = dims[1]
    /\ \A b \in 1..Len(xt) :
           /\ Len(xt[b]) = dims[2]
           /\ \A d \in 1..Len(xt[b]) : Len(xt[b][d]) = dims[3]

\* C14: every estimator call and the vocoder call of a chunk are handed a
\* tensor of the shape [1, latent_dim * chunk_compress_factor, latent_len]
\* with as many elements, and x_t has this shape between the steps, whatever
\* the number of elements the estimator returned.
C14_ShapePreserved ==
    \A r \in Requests :
        /\ \A i \in 1..Len(req[r].calls) :
               LET e == req[r].calls[i]
               IN  e.session \in {"vec_est", "vocoder"} =>
                       /\ e.noisy_latent.dims = LatentShape(r, e.chunk)
                       /\ Len(e.noisy_latent.data) =
                              e.noisy_latent.dims[1] * e.noisy_latent.dims[2]
                                  * e.noisy_latent.dims[3]
        /\ req[r].pc \in {"vec_est", "vocoder"} =>
               HasShape(req[r].xt.data, LatentShape(r, req[r].chunk))

\* The vocoder was handed a latent of several elements made by two estimator
\* steps, the last of which returned too few elements.
C14_Witness ==
    \E r \in Requests : \E i \in 1..Len(req[r].calls) :
        LET e == req[r].calls[i]
        IN  /\ e.session = "vocoder"
            /\ e.noisy_latent.steps = 2
            /\ Len(e.noisy_latent.data) >= 2
            /\ e.noisy_latent.data[1] = 3
            /\ e.noisy_latent.data[Len(e.noisy_latent.data)] = 0

(***************************************************************************)
(* Properties of the POST handler                                          *)
(***************************************************************************)
Answered == post.pc = "done"

\* The body is a JSON value.
JsonBody == post.body # None /\ post.body[1].kind # "malformed"

\* The text is missing, not a string, or empty after trim.
BadText(body) == body.kind = "null" \/ body.text.t # "string" \/ Trim(body.text.s) = <<>>

\* The voiceStyle is missing or not one of F1, F2, M1, M2.
BadVoiceStyle(body) ==
    \/ body.kind = "null"
    \/ body.voiceStyle.t # "string"
    \/ body.voiceStyle.s \notin { <<"F", "1">>, <<"F", "2">>, <<"M", "1">>, <<"M", "2">> }

\* C15 as stated: a POST whose JSON body has a bad text or a bad voiceStyle
\* is answered with status 400 and a JSON error body, the one of the text
\* when the text is bad, and synthesizeToWavBuffer is not called for it.
C15_InvalidInputIs400 ==
    (JsonBody /\ (BadText(post.body[1]) \/ BadVoiceStyle(post.body[1]))) =>
        /\ post.synthCalls = <<>>
        /\ post.pc # "synth"
        /\ Answered =>
               /\ Len(post.responses) = 1
               /\ post.responses[1].status = 400
               /\ post.responses[1].contentType = "application/json"
               /\ post.responses[1].error =
                      (IF BadText(post.body[1]) THEN TextMessage ELSE VoiceStyleMessage)

\* Synthesis was called and threw.
SynthesisThrew == post.synthCalls # <<>> /\ post.thrown # None

\* C16: a POST whose synthesis throws is answered once, with status 500 and
\* a JSON body whose error is the message of the thrown Error, never with
\* status 200 or audio; no POST is answered twice, and every finished POST
\* has its response.
C16_SynthesisFailureIs500 ==
    /\ Len(post.responses) = (IF Answered THEN 1 ELSE 0)
    /\ SynthesisThrew =>
           /\ Answered
           /\ post.responses[1].status = 500
           /\ post.responses[1].contentType = "application/json"
           /\ post.responses[1].wavBuffer = <<>>
           /\ post.thrown[1].isError => post.responses[1].error = post.thrown[1].message

\* Synthesis threw an Error with a message of its own.
C16_Witness ==
    /\ SynthesisThrew
    /\ Answered
    /\ post.thrown[1].isError
    /\ post.thrown[1].message = "inference failed"
    /\ post.responses[1].error = "inference failed"

(***************************************************************************)
(* Properties of the voice-style cache                                     *)
(***************************************************************************)
\* The Style has the values of the asset of voice id.
HasAssetValues(style, id) ==
    /\ style.ttl.data = StyleAsset(id).style_ttl.data
    /\ style.dp.data = StyleAsset(id).style_dp.data
    /\ SubSeq(style.ttl.dims, 2, 3) = SubSeq(StyleAsset(id).style_ttl.dims, 2, 3)
    /\ SubSeq(style.dp.dims, 2, 3) = SubSeq(StyleAsset(id).style_dp.dims, 2, 3)

\* C17: no step removes an entry of the cache, and after every step each
\* call that has its style, and the cache entry of its voice, hold the values
\* of the asset, however the first uses of the voice interleave.
C17_CacheMonotonic ==
    [][ /\ \A id \in VoiceStyleIds :
               globalStyleCache[id] # None => globalStyleCache'[id] # None
        /\ \A id \in VoiceStyleIds :
               globalStyleCache'[id] # None => HasAssetValues(globalStyleCache'[id][1], id)
        /\ \A r \in Requests :
               req'[r].style # None =>
                   /\ HasAssetValues(req'[r].style[1], req'[r].voiceStyle)
                   /\ globalStyleCache'[req'[r].voiceStyle] # None
                   /\ globalStyleCache'[req'[r].voiceStyle][1].ttl = req'[r].style[1].ttl
                   /\ globalStyleCache'[req'[r].voiceStyle][1].dp = req'[r].style[1].dp
      ]_vars

\* Two calls made a first use of one voice at once: each built its own Style.
C17_Witness ==
    \E r1, r2 \in Requests :
        /\ r1 # r2
        /\ req[r1].style # None /\ req[r2].style # None
        /\ req[r1].voiceStyle = req[r2].voiceStyle
        /\ req[r1].style[1].oid # req[r2].style[1].oid

\* Call r enters loadVoiceStyle in this step.
EntersLoadVoiceStyle(r) ==
    \/ req[r].pc = "idle" /\ req'[r].pc \notin {"idle", "ignored"} /\ globalTextToSpeech # None
    \/ req[r].pc = "loadIndexer" /\ req'[r].pc # "loadIndexer" /\ assigns' # assigns

\* C20: a loadVoiceStyle call that starts when the cache has an entry for its
\* voice returns the cached Style itself, fetches nothing, builds no Style
\* and leaves the cache as it is.
C20_CachedStyleReturned ==
    [][ \A r \in Requests :
            (EntersLoadVoiceStyle(r) /\ globalStyleCache[req'[r].voiceStyle] # None) =>
                /\ req'[r].pc # "fetchStyle"
                /\ req'[r].style = globalStyleCache[req'[r].voiceStyle]
                /\ globalStyleCache' = globalStyleCache
                /\ styles' = styles
      ]_vars

\* Two calls hold the one Style object that was ever built.
C20_Witness ==
    \E r1, r2 \in Requests :
        /\ r1 # r2
        /\ req[r1].style # None
        /\ req[r1].style = req[r2].style
        /\ styles = 1

(***************************************************************************)
(* Properties of the order of the stages and of failures                    *)
(***************************************************************************)
InferenceSessions == {"dp", "text_enc", "vec_est", "vocoder"}

\* The session of the k-th session call of a request of totalStep steps.
StageOf(k, totalStep) ==
    LET pos == (k - 1) % (totalStep + 3)
    IN  IF pos = 0 THEN "dp"
        ELSE IF pos = 1 THEN "text_enc"
        ELSE IF pos = totalStep + 2 THEN "vocoder"
        ELSE "vec_est"

\* C18: the session calls of a request are, chunk after chunk in text order,
\* duration predictor, text encoder, the estimator steps 0 .. totalStep - 1,
\* vocoder; the latent is sampled between text encoder and estimator; the
\* call in flight is the last one made, so each starts after the one before
\* it has returned; a resolved request has made all of them.
C18_StageOrder ==
    \A r \in Requests :
        LET calls == req[r].calls
            per   == req[r].totalStep + 3
        IN  /\ \A k \in 1..Len(calls) :
                   /\ calls[k].session = StageOf(k, req[r].totalStep)
                   /\ calls[k].chunk = ((k - 1) \div per) + 1
                   /\ calls[k].session = "vec_est" =>
                          calls[k].current_step = ((k - 1) % per) - 2
            /\ req[r].pc \in InferenceSessions =>
                   /\ calls # <<>>
                   /\ calls[Len(calls)].session = req[r].pc
                   /\ calls[Len(calls)].chunk = req[r].chunk
                   /\ Len(req[r].wavs) = req[r].chunk - 1
            /\ req[r].pc \in {"dp", "text_enc"} => req[r].latentMask = <<>>
            /\ req[r].pc \in {"vec_est", "vocoder"} => Len(req[r].latentMask) = 1
            /\ Resolved(r) => Len(calls) = Len(req[r].textList) * per

\* A request of two chunks and two estimator steps has made its ten calls.
C18_Witness ==
    \E r \in Requests :
        /\ Resolved(r)
        /\ req[r].totalStep = 2
        /\ Len(req[r].calls) = 10
        /\ req[r].calls[10].session = "vocoder"
        /\ req[r].calls[10].chunk = 2

\* C19: once a session run has failed the call is rejected with that error
\* and has no result; a rejected call makes no further step, so no further
\* session call; and a call waiting for a session is rejected by nothing
\* but that session's failure.
C19_FailureRejects ==
    [][ \A r \in Requests :
            /\ req'[r].error = "inference failed" =>
                   /\ req'[r].pc = "rejected"
                   /\ req'[r].result = None
            /\ req[r].pc = "rejected" => req'[r] = req[r]
            /\ (req[r].pc \in InferenceSessions /\ req'[r].pc = "rejected") =>
                   /\ req'[r].error = "inference failed"
                   /\ req'[r].calls = req[r].calls
            /\ (req[r].pc \in InferenceSessions /\ req'[r].pc = "resolved") =>
                   req'[r].error = ""
      ]_vars

\* The second chunk failed after the first had its waveform.
C19_Witness ==
    \E r \in Requests :
        /\ req[r].pc = "rejected"
        /\ req[r].error = "inference failed"
        /\ req[r].chunk = 2
        /\ Len(req[r].wavs) = 1
        /\ req[r].wavCat # <<>>
        /\ req[r].result = None

(***************************************************************************)
(* Properties of the chunks: shape, order, greedy packing, conservation    *)
(***************************************************************************)
\* The strings of a list joined with single spaces.
RECURSIVE JoinSpace(_)
JoinSpace(strings) ==
    IF strings = <<>> THEN <<>>
    ELSE IF Len(strings) = 1 THEN strings[1]
    ELSE strings[1] \o <<" ">> \o JoinSpace(Tail(strings))

NonWhiteSpace(s) == SelectSeq(s, LAMBDA c : c \notin WhiteSpace)

\* All sentences of the text, paragraph after paragraph.
AllSentences == Flat(ctSents)

\* C21: every chunk is non-empty and neither starts nor ends with whitespace,
\* and the chunks in their order are the sentences of the text in their
\* order (paragraph by paragraph, sentence by sentence), joined.
C21_ChunksTrimmedInOrder ==
    ctDone =>
        /\ \A i \in 1..Len(ctChunks) :
               /\ ctChunks[i] # <<>>
               /\ ctChunks[i][1] \notin WhiteSpace
               /\ ctChunks[i][Len(ctChunks[i])] \notin WhiteSpace
        /\ JoinSpace(ctChunks) = JoinSpace(AllSentences)

\* Two chunks of one paragraph, from a text that ends with whitespace.
C21_Witness ==
    /\ ctDone
    /\ Len(ctParas) = 1
    /\ Len(ctChunks) = 2
    /\ ctInput[Len(ctInput)] \in WhiteSpace

\* How many of the sentences ss the chunk is made of; 0 when it is not the
\* join of the first sentences.
GroupSize(chunk, ss) ==
    LET ns == {n \in 1..Len(ss) : JoinSpace(SubSeq(ss, 1, n)) = chunk}
    IN  IF ns = {} THEN 0 ELSE SetMin(ns)

\* The sizes of the groups of sentences the chunks of one paragraph are.
RECURSIVE GroupSizes(_, _)
GroupSizes(chunks, ss) ==
    IF ss = <<>> THEN <<>>
    ELSE IF chunks = <<>> THEN << 0 >>
    ELSE LET n == GroupSize(Head(chunks), ss)
         IN  IF n = 0 THEN << 0 >>
             ELSE << n >> \o GroupSizes(Tail(chunks), SubSeq(ss, n + 1, Len(ss)))

\* The group sizes of every paragraph.
RECURSIVE ParagraphGroups(_, _)
ParagraphGroups(chunks, sents) ==
    IF sents = <<>> THEN <<>>
    ELSE LET g == GroupSizes(chunks, Head(sents))
         IN  << g >> \o ParagraphGroups(SubSeq(chunks, Len(g) + 1, Len(chunks)), Tail(sents))

\* The chunks are the sentences of each paragraph, in groups.
WellGrouped(groups) ==
    /\ \A k \in 1..Len(groups) : \A i \in 1..Len(groups[k]) : groups[k][i] > 0
    /\ SumSeq([k \in 1..Len(groups) |-> Len(groups[k])]) = Len(ctChunks)

\* The index in ctChunks of chunk i of paragraph k.
ChunkIndex(groups, k, i) == SumSeq([p \in 1..(k - 1) |-> Len(groups[p])]) + i

\* The index in paragraph k of the first sentence of its chunk i.
FirstSentence(groups, k, i) == SumSeq(SubSeq(groups[k], 1, i - 1)) + 1

\* C22: the chunks of a paragraph are groups of consecutive sentences; in a
\* group every sentence after the first fitted the chunk made so far
\* (len(current) + 1 + len(s) <= max_len), and the first sentence of the next
\* chunk did not fit the whole earlier chunk.
C22_GreedyPacking ==
    ctDone =>
        LET groups == ParagraphGroups(ctChunks, ctSents)
        IN  /\ WellGrouped(groups)
            /\ \A k \in 1..Len(groups) : \A i \in 1..Len(groups[k]) :
                   LET ss    == ctSents[k]
                       first == FirstSentence(groups, k, i)
                       chunk == ctChunks[ChunkIndex(groups, k, i)]
                   IN  /\ \A j \in 2..groups[k][i] :
                              Len(JoinSpace(SubSeq(ss, first, first + j - 2))) + 1
                                  + Len(ss[first + j - 1]) <= ctMaxLen
                       /\ i < Len(groups[k]) =>
                              Len(chunk) + 1 + Len(ss[first + groups[k][i]]) > ctMaxLen

\* Two chunks of one paragraph that together are one character too long.
C22_Witness ==
    /\ ctDone
    /\ ctMaxLen = 5
    /\ Len(ctParas) = 1
    /\ Len(ctChunks) = 2
    /\ Len(ctChunks[1]) + 1 + Len(ctChunks[2]) = 6

\* C30: the non-whitespace characters of the chunks, read in order, are
\* those of the input, and the chunks of each paragraph hold the
\* non-whitespace characters of this paragraph and of no other.
C30_TextConserved ==
    ctDone =>
        LET groups == ParagraphGroups(ctChunks, ctSents)
        IN  /\ NonWhiteSpace(Flat(ctChunks)) = NonWhiteSpace(ctInput)
            /\ NonWhiteSpace(Flat(ctParas)) = NonWhiteSpace(ctInput)
            /\ \A k \in 1..Len(ctParas) : ~HasBlankLine(ctParas[k])
            /\ WellGrouped(groups)
            /\ Len(groups) = Len(ctParas)
            /\ \A k \in 1..Len(groups) :
                   NonWhiteSpace(Flat(SubSeq(ctChunks, ChunkIndex(groups, k, 1),
                                             ChunkIndex(groups, k, Len(groups[k])))))
                       = NonWhiteSpace(ctParas[k])

\* Two paragraphs, a chunk each, and whitespace that no chunk holds.
C30_Witness ==
    /\ ctDone
    /\ Len(ctParas) = 2
    /\ Len(ctChunks) = 2
    /\ Len(Flat(ctChunks)) + 2 = Len(ctInput)

(***************************************************************************)
(* The numbers the POST handler passes to the synthesis                    *)
(***************************************************************************)
\* The body of the request that reached the synthesis.
PassedBody == post.body[1]

\* floor of a number counted in hundredths, in hundredths
FloorHundredths(n) == n - (n % 100)

\* C23: for every body that passes validation, the totalStep passed to the
\* synthesis is an integer >= 1: 5 when totalStep is absent, not a number or
\* not finite, and max(1, floor(totalStep)) otherwise; the speed passed is the
\* given number when it is a finite number, and 1.05 otherwise.
C23_StepsAndSpeedPassed ==
    \A i \in 1..Len(post.synthCalls) :
        LET call == post.synthCalls[i]
            given == PassedBody.totalStep
            speed == PassedBody.speed
        IN  /\ call.totalStep % 100 = 0
            /\ call.totalStep >= 100
            /\ (given.t # "number" \/ ~given.finite) => call.totalStep = 500
            /\ (given.t = "number" /\ given.finite) =>
                   call.totalStep = IF FloorHundredths(given.n) >= 100
                                    THEN FloorHundredths(given.n) ELSE 100
            /\ (speed.t = "number" /\ speed.finite) => call.speed = speed
            /\ (speed.t # "number" \/ ~speed.finite) => call.speed = Num(105)

\* A body with totalStep 2.5 and no speed reached the synthesis with 2 and 1.05.
C23_Witness ==
    /\ Len(post.synthCalls) = 1
    /\ PassedBody.totalStep = Num(250)
    /\ PassedBody.speed = Undefined
    /\ post.synthCalls[1].totalStep = 200
    /\ post.synthCalls[1].speed = Num(105)

(***************************************************************************)
(* The samples of the WAV buffer                                           *)
(***************************************************************************)
\* The signed 16-bit little-endian value at offset off of b
SignedLE16(b, off) ==
    IF LE16(b, off) >= 32768 THEN LE16(b, off) - 65536 ELSE LE16(b, off)

\* floor(clamp(s, -1, 1) * 32767), s given in 1/SampleDen
ClampedFloor(s) ==
    IF s >= SampleDen THEN 32767
    ELSE IF s <= -SampleDen THEN -32767
    ELSE LET p == s * 32767 IN (p - (p % SampleDen)) \div SampleDen

\* C24: for every input sample s, the 16-bit little-endian value stored at
\* byte offset 44 + 2i is floor(clamp(s, -1, 1) * 32767), which lies in
\* -32767..32767: a sample of any magnitude is stored without wrapping.
C24_SamplesClamped ==
    wavDone =>
        /\ Len(wavBuffer) = 44 + 2 * Len(wavAudio)
        /\ \A i \in 1..Len(wavAudio) :
               LET stored == SignedLE16(wavBuffer, 44 + 2 * (i - 1))
               IN  /\ stored = ClampedFloor(wavAudio[i])
                   /\ stored \in -32767..32767
                   /\ (wavAudio[i] >= 0) = (stored >= 0)

\* A buffer was written of a sample above 1 and a sample below -1.
C24_Witness ==
    /\ wavDone
    /\ Len(wavAudio) = 2
    /\ wavAudio[1] > SampleDen
    /\ wavAudio[2] < -SampleDen
    /\ SignedLE16(wavBuffer, 44) = 32767
    /\ SignedLE16(wavBuffer, 46) = -32767

(***************************************************************************)
(* What the estimator is run with                                          *)
(***************************************************************************)
\* The logged runs of the estimator for chunk c by request r.
EstimatorRuns(r, c) ==
    {i \in 1..Len(req[r].calls) :
        req[r].calls[i].session = "vec_est" /\ req[r].calls[i].chunk = c}

\* The logged run of the text encoder for chunk c by request r.
TextEncCalls(r, c) ==
    {i \in 1..Len(req[r].calls) :
        req[r].calls[i].session = "text_enc" /\ req[r].calls[i].chunk = c}

\* The tensors of the voice style as they were built from its asset.
LoadedTtl(id) == StyleTensor(StyleAsset(id).style_ttl)

LoadedDp(id) == StyleTensor(StyleAsset(id).style_dp)

\* C25: across the estimator calls of one chunk only noisy_latent and
\* current_step change: every call gets the text_emb that the text encoder
\* returned for the chunk, and the same style_ttl, latent_mask, text_mask and
\* total_step; the tensors of the voice style stay as they were loaded.
C25_OnlyLatentAndStepChange ==
    \A r \in Requests :
        /\ \A i \in 1..Len(req[r].calls) :
               LET e == req[r].calls[i]
               IN  e.session = "vec_est" =>
                       /\ \A j \in TextEncCalls(r, e.chunk) :
                              /\ j < i
                              /\ e.text_emb = Some([madeBy |-> j, chunk |-> e.chunk])
                              /\ e.text_mask = req[r].calls[j].text_mask
                              /\ e.style_ttl = req[r].calls[j].style_ttl
                       /\ TextEncCalls(r, e.chunk) # {}
                       /\ e.total_step = req[r].totalStep
                       /\ e.style_ttl = Some(LoadedTtl(req[r].voiceStyle))
                       /\ \A k \in EstimatorRuns(r, e.chunk) :
                              LET f == req[r].calls[k]
                              IN  /\ f.text_emb = e.text_emb
                                  /\ f.style_ttl = e.style_ttl
                                  /\ f.latent_mask = e.latent_mask
                                  /\ f.text_mask = e.text_mask
                                  /\ f.total_step = e.total_step
                                  /\ (k # i) => f.current_step # e.current_step
        /\ req[r].style # None =>
               /\ req[r].style[1].ttl = LoadedTtl(req[r].voiceStyle)
               /\ req[r].style[1].dp = LoadedDp(req[r].voiceStyle)
        /\ \A id \in VoiceStyleIds :
               globalStyleCache[id] # None =>
                   /\ globalStyleCache[id][1].ttl = LoadedTtl(id)
                   /\ globalStyleCache[id][1].dp = LoadedDp(id)

\* The second chunk of a call has had two estimator runs on a latent that the
\* first of them changed.
C25_Witness ==
    /\ req[1].pc = "resolved"
    /\ Cardinality(EstimatorRuns(1, 2)) = 2
    /\ \E i, k \in EstimatorRuns(1, 2) :
           /\ req[1].calls[i].current_step = 0
           /\ req[1].calls[k].current_step = 1
           /\ req[1].calls[i].noisy_latent.data # req[1].calls[k].noisy_latent.data
           /\ req[1].calls[i].noisy_latent.data # <<>>

(***************************************************************************)
(* A call with nothing to say                                              *)
(***************************************************************************)
\* The text is empty or consists of whitespace only.
IsBlank(text) == \A i \in 1..Len(text) : text[i] \in WhiteSpace

\* The errors of loading the engine or the voice style.
LoadErrors ==
    {"Failed to fetch", "Failed to create session", "RangeError: offset is out of bounds"}

\* C29: a synthesize call with a text that is empty or whitespace only has no
\* chunk and runs no inference session; once the engine and the voice style
\* are there it resolves, with durationSeconds 0 and a 44-byte WAV buffer of
\* zero samples, and it fails of nothing but a failed load.
C29_BlankTextResolvesEmpty ==
    \A r \in Requests :
        (req[r].pc # "idle" /\ IsBlank(req[r].text)) =>
            /\ chunkText(req[r].text, DefaultMaxLen) = <<>>
            /\ req[r].textList = <<>>
            /\ req[r].calls = <<>>
            /\ req[r].pc \notin InferenceSessions
            /\ req[r].style # None =>
                   /\ req[r].pc = "resolved"
                   /\ req[r].result # None
                   /\ req[r].result[1].durationSeconds = 0
                   /\ Len(req[r].result[1].wavBuffer) = 44
                   /\ DecodedSamples(req[r].result[1].wavBuffer) = 0
                   /\ LE32(req[r].result[1].wavBuffer, 40) = 0
            /\ req[r].pc = "rejected" =>
                   /\ req[r].style = None
                   /\ req[r].error \in LoadErrors

\* A call with a text of whitespace has resolved.
C29_Witness ==
    /\ req[1].pc = "resolved"
    /\ req[1].text # <<>>
    /\ IsBlank(req[1].text)
    /\ Len(req[1].result[1].wavBuffer) = 44
    /\ req[1].result[1].durationSeconds = 0

(***************************************************************************)
(* What a failed load leaves behind                                        *)
(***************************************************************************)
\* Call r fails in this step, having been at one of the positions pcs.
FailsAt(r, pcs) == req[r].pc \in pcs /\ req'[r].pc = "rejected"

\* C28: a failed load leaves the shared state unchanged: when
\* loadTextToSpeechInternal throws, globalTextToSpeech and globalConfig are
\* not assigned, and a call that finds globalTextToSpeech null starts the
\* load again; when the load of a voice style fails, the style cache gets no
\* entry; and globalTextToSpeech is non-null only where globalConfig is.
C28_FailedLoadLeavesState ==
    [][ /\ \A r \in Requests :
             /\ FailsAt(r, {"loadCfgs", "loadOnnx", "loadIndexer"}) =>
                    /\ globalTextToSpeech' = globalTextToSpeech
                    /\ globalConfig' = globalConfig
                    /\ globalStyleCache' = globalStyleCache
                    /\ assigns' = assigns
             /\ FailsAt(r, {"fetchStyle"}) =>
                    /\ globalStyleCache' = globalStyleCache
                    /\ styles' = styles
                    /\ globalTextToSpeech' = globalTextToSpeech
                    /\ globalConfig' = globalConfig
             /\ (req[r].pc = "idle" /\ req'[r].pc \notin {"idle", "ignored"}
                    /\ globalTextToSpeech = None) =>
                    /\ req'[r].pc = "loadCfgs"
                    /\ loads' = loads + 1
        /\ (globalTextToSpeech' # None) => (globalConfig' # None)
        /\ (globalTextToSpeech' = None) => (globalConfig' = None) ]_vars

\* The first load has failed and left no engine, the call after it has loaded
\* the engine again, and its fetch of the voice style has failed and left no
\* entry in the cache.
C28_Witness ==
    /\ req[1].pc = "rejected"
    /\ req[1].loadNo = 1
    /\ req[1].textToSpeech = None
    /\ req[2].loadNo = 2
    /\ assigns = 1
    /\ globalTextToSpeech # None
    /\ globalTextToSpeech[1].id = 2
    /\ req[2].pc = "rejected"
    /\ req[2].error = "Failed to fetch"
    /\ req[2].style = None
    /\ globalStyleCache[req[2].voiceStyle] = None

(***************************************************************************)
(* The worker: one response for every SYNTHESIZE message                   *)
(***************************************************************************)
\* The places in `posted` of the responses to message r.
AnswersTo(r) == {i \in 1..Len(posted) : posted[i].to = r}

\* Message r was a SYNTHESIZE message.
IsSynthesize(r) == req[r].pc \notin {"idle", "ignored"}

\* At no time has a message more than one response, a response that is not
\* that of its outcome, or a response it should not have.
OneResponseOfTheOutcome ==
    \A r \in Requests :
        /\ Cardinality(AnswersTo(r)) <= 1
        /\ (AnswersTo(r) # {}) = Settled(req[r])
        /\ ~IsSynthesize(r) => AnswersTo(r) = {}
        /\ \A i \in AnswersTo(r) :
               LET m == posted[i].message
               IN  /\ m.type \in {"SUCCESS", "ERROR"}
                   /\ (req[r].pc = "resolved") = (m.type = "SUCCESS")
                   /\ (req[r].pc = "rejected") = (m.type = "ERROR")
                   /\ m.type = "SUCCESS" =>
                          /\ m.payload = req[r].result
                          /\ m.payload # None
                          /\ DOMAIN m.payload[1] = {"wavBuffer", "sampleRate", "durationSeconds"}
                   /\ m.type = "ERROR" => m.error = req[r].error /\ m.error # ""

\* C26: in any interleaving of the messages in flight, a SYNTHESIZE message
\* eventually has exactly one posted response, SUCCESS with the result if
\* synthesize resolved and ERROR with the error message if it rejected, never
\* both; a message of another type has no response.
C26_OneResponsePerMessage ==
    /\ []OneResponseOfTheOutcome
    /\ \A r \in Requests : IsSynthesize(r) ~> (Cardinality(AnswersTo(r)) = 1)
    /\ \A r \in Requests : [](req[r].pc = "ignored" => [](AnswersTo(r) = {}))

\* Two messages were in flight together; one has its SUCCESS, the other its
\* ERROR.
C26_Witness ==
    /\ Len(posted) = 2
    /\ req[1].loadNo = 1
    /\ req[2].loadNo = 2
    /\ \E i, j \in 1..2 :
           /\ posted[i].message.type = "SUCCESS"
           /\ Len(posted[i].message.payload[1].wavBuffer) > 44
           /\ posted[j].message.type = "ERROR"
           /\ posted[j].message.error = "inference failed"

(***************************************************************************)
(* The worker: the order of the responses                                  *)
(***************************************************************************)
\* The place of r in a sequence of request numbers or of responses.
ArrivedAt(r) == CHOOSE i \in 1..Len(arrived) : arrived[i] = r

PostedAt(r) == CHOOSE i \in AnswersTo(r) : TRUE

\* C27 as stated: of two SYNTHESIZE messages m1 then m2, m2 received while m1
\* is being processed, the response to m1 is posted before the response to m2.
C27_ResponsesInArrivalOrder ==
    \A m1, m2 \in Requests :
        (/\ IsSynthesize(m1) /\ IsSynthesize(m2)
         /\ ArrivedAt(m1) < ArrivedAt(m2)
         /\ AnswersTo(m2) # {}) =>
            /\ AnswersTo(m1) # {}
            /\ PostedAt(m1) < PostedAt(m2)

\* Call r settles in this step.
Settles(r) == ~Settled(req[r]) /\ Settled(req'[r])

\* C27 amended: the responses are posted in the order in which the synthesize
\* calls settle, each in the step that settles its call, after all the
\* responses posted before; this need not be the order of arrival.
C27_ResponsesInSettlingOrder ==
    [][ /\ \A r \in Requests :
             Settles(r) =>
                 /\ Len(posted') = Len(posted) + 1
                 /\ SubSeq(posted', 1, Len(posted)) = posted
                 /\ posted'[Len(posted')].to = r
        /\ (\A r \in Requests : ~Settles(r)) => posted' = posted ]_vars

\* Message 2 was received after message 1 and has its response, while
\* message 1 is still being processed.
C27_Witness ==
    /\ arrived = <<1, 2>>
    /\ IsSynthesize(1)
    /\ IsSynthesize(2)
    /\ ~Settled(req[1])
    /\ AnswersTo(1) = {}
    /\ Len(posted) = 1
    /\ posted[1].to = 2
    /\ posted[1].message.type = "SUCCESS"

====
